---- MODULE Spec2Model ----
(***************************************************************************)
(* A model of the speckit extension's core: the maturity store            *)
(* (src/src/helpers/maturityManager.ts), with the in-memory cache of      *)
(* parsed records, the maturity.json / maturity.md files on disk and the  *)
(* store's accessors and mutators; and the specification parser           *)
(* (SpecParser), with its loop over the lines of a document and its       *)
(* loop over the entries of the specs directory.                          *)
(***************************************************************************)
EXTENDS Integers, Sequences, FiniteSets, TLC

\* ------------------------------------------------------------------ bounds
\* Last instant of the wall clock (new Date()).  Every call of a synchronous
\* mutator, every write of a scan, every rewrite of a file from outside and
\* every change of the directory's permissions takes one instant.
MaxNow == 2
\* Most lines a specification document has.
MaxLines == 5
\* Most entries the tests directory has.
MaxEntries == 3
\* Most calls of the metadata manager on one document.
MaxCalls == 2
\* The refresh calls of a run, the constructor's included, and the changes of
\* files under them.
MaxRefreshes == 3
MaxChanges == 2

\* ------------------------------------------------------------- input sets
SpecDirs == {"specs/001-a"}
SpecPaths == {<<d, "spec.md">> : d \in SpecDirs}
StoryNumbers == {1, 2}
\* Scenario identifiers, listed in localeCompare order.
ScenarioOrder == <<"US1-AS1", "US1-AS2", "US2-AS1">>
ScenarioIds == {ScenarioOrder[i] : i \in 1..Len(ScenarioOrder)}
\* The (story number, scenario id) pairs the store is called with.
Targets == {<<1, "US1-AS1">>, <<1, "US1-AS2">>}
\* Test names the store is asked about; both carry a scenario identifier.
TestNames == {"US1-AS1: works", "us1-as2: fails"}
WorkspaceRoot == "/ws"
TestFile == "tests/us1.spec.ts"

\* ------------------------------------------------------------------ types
\* MaturityLevel, in the order of the `levels` arrays of the store.
Levels == <<"none", "partial", "complete">>
LevelSet == {"none", "partial", "complete"}
\* A level that is absent (undefined) in the program.
Undefined == "undefined"
\* An optional date (lastUpdated, lastRun): <<>> when undefined, <<t>> when set.
NoDate == <<>>
\* File contents.  A path that does not exist; a text that JSON.parse or
\* jsonToMaturityData rejects; a JSON text; a text of legacy lines.
Absent == [kind |-> "absent"]
Corrupt == [kind |-> "corrupt"]
JsonText(json) == [kind |-> "json", json |-> json]
LegacyText(lines) == [kind |-> "legacy", lines |-> lines]

VARIABLES
  fs,      \* the file system: path -> content
  cache,   \* MaturityManager.cache: maturity.json path -> MaturityData
  now,     \* the wall clock
  writable,\* whether fs.writeFileSync succeeds (FALSE: it throws, e.g. EACCES)
  last,    \* the most recent call of the store: operation, arguments, outcome
  scan,    \* the scanAndUpdateMaturity call in flight, if any
  parse,   \* the SpecParser.parseSpecFile call: its position and its locals
  bulk,    \* the SpecParser.parseAllSpecs call: its position and its locals
  link,    \* the TestLinker call: its position, its locals and its result
  md,      \* the spec.md the SpecMetadataManager works on, and its last call
  tree     \* the SpecTreeProvider: its specs, its refresh calls and the files they read

vars == <<fs, cache, now, writable, last, scan, parse, bulk, link, md, tree>>

\* ------------------------------------------------------------------ paths
getMaturityFilePath(specFilePath) == <<specFilePath[1], "maturity.json">>
getLegacyMaturityFilePath(specFilePath) == <<specFilePath[1], "maturity.md">>
FilePaths == {getMaturityFilePath(p) : p \in SpecPaths}
               \cup {getLegacyMaturityFilePath(p) : p \in SpecPaths}

\* `US${userStoryNumber}` and parseInt(key.replace('US', ''))
StoryKey(n) == <<"US", n>>
StoryNum(key) == key[2]

\* Array.prototype.indexOf, 0-based, -1 when absent.
indexOf(arr, x) ==
  IF \E i \in 1..Len(arr) : arr[i] = x
  THEN (CHOOSE i \in 1..Len(arr) : arr[i] = x /\ \A j \in 1..(i - 1) : arr[j] # x) - 1
  ELSE -1

\* A value that `||` and `if` let through: not undefined, not ''.
Truthy(v) == v # Undefined /\ v # ""

\* levels[i] for a 0-based index i; out of range reads undefined.
LevelAt(i) == IF i >= 0 /\ i < Len(Levels) THEN Levels[i + 1] ELSE Undefined

\* The loop with its comparison turned round: lowestIndex never goes down.
RECURSIVE LowerOver_Reversed(_, _, _)
LowerOver_Reversed(scenarios, ids, lowestIndex) ==
  IF ids = {} THEN lowestIndex
  ELSE LET c == CHOOSE x \in ids : TRUE
           index == indexOf(Levels, scenarios[c].level)
       IN LowerOver_Reversed(scenarios, ids \ {c},
                             IF index > lowestIndex THEN index ELSE lowestIndex)

\* The loop `for (const scenarioData of scenarios.values())` that lowers
\* lowestIndex to the index of every level below it.
RECURSIVE LowerOver(_, _, _)
LowerOver(scenarios, ids, lowestIndex) ==
  IF ids = {} THEN lowestIndex
  ELSE LET c == CHOOSE x \in ids : TRUE
           index == indexOf(Levels, scenarios[c].level)
       IN LowerOver(scenarios, ids \ {c},
                    IF index < lowestIndex THEN index ELSE lowestIndex)

calculateOverallLevel(scenarios) ==
  LevelAt(LowerOver(scenarios, DOMAIN scenarios, Len(Levels) - 1))

\* --------------------------------------------------------- JSON <-> record
EmptyData == [lastUpdated |-> NoDate, userStories |-> <<>>]

RECURSIVE SortStories(_)
SortStories(keys) ==
  IF keys = {} THEN <<>>
  ELSE LET m == CHOOSE k \in keys : \A o \in keys : StoryNum(k) <= StoryNum(o)
       IN <<m>> \o SortStories(keys \ {m})

LocaleRank(id) == indexOf(ScenarioOrder, id)

RECURSIVE SortScenarios(_)
SortScenarios(ids) ==
  IF ids = {} THEN <<>>
  ELSE LET m == CHOOSE c \in ids : \A o \in ids : LocaleRank(c) <= LocaleRank(o)
       IN <<m>> \o SortScenarios(ids \ {m})

\* The JSON text written for a record: an object is the sequence of its
\* members in the order written.  The member testConfig (<<>> when the text
\* has none) is not among those written.
maturityDataToJson(data, ts) ==
  LET ScenariosJson(scenarios) ==
        LET order == SortScenarios(DOMAIN scenarios)
        IN [i \in 1..Len(order) |->
              [id |-> order[i],
               level |-> scenarios[order[i]].level,
               tests |-> scenarios[order[i]].tests]]
      order == SortStories(DOMAIN data.userStories)
  IN [lastUpdated |-> <<ts>>,
      testConfig |-> <<>>,
      userStories |->
        [i \in 1..Len(order) |->
           [key |-> order[i],
            overall |-> data.userStories[order[i]].overall,
            scenarios |-> ScenariosJson(data.userStories[order[i]].scenarios)]]]

\* The index of the last member named k in a sequence of member names: in
\* Object.entries(...) folded into a Map, a later member of the same name
\* replaces an earlier one.
lastIndexOf(names, k) ==
  CHOOSE i \in 1..Len(names) :
    names[i] = k /\ \A j \in (i + 1)..Len(names) : names[j] # k

\* jsonToMaturityData that does not read a story's overall.
jsonToMaturityData_NoOverall(json) ==
  LET ScenariosOf(ms) ==
        LET ids == [i \in 1..Len(ms) |-> ms[i].id]
        IN [id \in {ids[i] : i \in 1..Len(ids)} |->
              [level |-> ms[lastIndexOf(ids, id)].level,
               tests |-> ms[lastIndexOf(ids, id)].tests]]
      keys == [i \in 1..Len(json.userStories) |-> json.userStories[i].key]
  IN [lastUpdated |-> json.lastUpdated,
      userStories |->
        [k \in {keys[i] : i \in 1..Len(keys)} |->
           [overall |-> "none",
            scenarios |-> ScenariosOf(json.userStories[lastIndexOf(keys, k)].scenarios)]]]

jsonToMaturityData(json) ==
  LET ScenariosOf(ms) ==
        LET ids == [i \in 1..Len(ms) |-> ms[i].id]
        IN [id \in {ids[i] : i \in 1..Len(ids)} |->
              [level |-> ms[lastIndexOf(ids, id)].level,
               tests |-> ms[lastIndexOf(ids, id)].tests]]
      keys == [i \in 1..Len(json.userStories) |-> json.userStories[i].key]
  IN [lastUpdated |-> json.lastUpdated,
      userStories |->
        [k \in {keys[i] : i \in 1..Len(keys)} |->
           [overall |-> json.userStories[lastIndexOf(keys, k)].overall,
            scenarios |-> ScenariosOf(json.userStories[lastIndexOf(keys, k)].scenarios)]]]

\* ----------------------------------------------------------- legacy format
\* String.prototype.toLowerCase on the level words that occur.
toLowerCase(w) ==
  CASE w = "Complete" -> "complete"
    [] w = "PARTIAL" -> "partial"
    [] w = "Overall" -> "overall"
    [] OTHER -> w

parseLevel(value) ==
  LET normalized == toLowerCase(value)
  IN IF normalized = "partial" \/ normalized = "complete" THEN normalized ELSE "none"

\* One iteration of the line loop of parseLegacyMaturityFile.  st holds the
\* record under construction and currentStory (<<>> is null).
LegacyLine(st, line) ==
  CASE line.kind = "lastUpdated" ->
         [st EXCEPT !.data.lastUpdated = <<line.value>>]
    [] line.kind = "story" ->
         [data |-> IF line.key \in DOMAIN st.data.userStories
                   THEN st.data
                   ELSE [st.data EXCEPT !.userStories =
                           (line.key :> [overall |-> "none", scenarios |-> <<>>]) @@ @],
          currentStory |-> <<line.key>>]
    [] line.kind = "entry" /\ st.currentStory # <<>> ->
         LET k == st.currentStory[1]
             level == parseLevel(line.value)
         IN IF toLowerCase(line.key) = "overall"
            THEN [st EXCEPT !.data.userStories[k].overall = level]
            ELSE [st EXCEPT !.data.userStories[k].scenarios =
                    (line.key :> [level |-> level, tests |-> <<>>]) @@ @]
    [] OTHER -> st

RECURSIVE LegacyLoop(_, _, _)
LegacyLoop(st, lines, i) ==
  IF i > Len(lines) THEN st
  ELSE LegacyLoop(LegacyLine(st, lines[i]), lines, i + 1)

\* Called only on an existing file; a text that is not made of legacy lines
\* has no line matching either pattern.
parseLegacyMaturityFile(content) ==
  IF content.kind = "legacy"
  THEN LegacyLoop([data |-> EmptyData, currentStory |-> <<>>], content.lines, 1).data
  ELSE EmptyData

existsSync(disk, path) == disk[path].kind # "absent"

\* parseMaturityFile that tries the legacy file first.
parseMaturityFile_LegacyFirst(disk, filePath) ==
  LET legacyPath == getLegacyMaturityFilePath(<<filePath[1], "spec.md">>)
  IN IF existsSync(disk, legacyPath)
     THEN parseLegacyMaturityFile(disk[legacyPath])
     ELSE IF existsSync(disk, filePath) /\ disk[filePath].kind = "json"
          THEN jsonToMaturityData(disk[filePath].json)
          ELSE EmptyData

parseMaturityFile(disk, filePath) ==
  IF existsSync(disk, filePath) /\ disk[filePath].kind = "json"
  THEN jsonToMaturityData(disk[filePath].json)
  ELSE LET legacyPath == getLegacyMaturityFilePath(<<filePath[1], "spec.md">>)
       IN IF existsSync(disk, legacyPath)
          THEN parseLegacyMaturityFile(disk[legacyPath])
          ELSE EmptyData

\* ---------------------------------------------------------------- accessors
\* getMaturityData that never looks in the cache.
getMaturityDataIn_NoCache(c, disk, specFilePath) ==
  parseMaturityFile(disk, getMaturityFilePath(specFilePath))

\* getMaturityData in a store whose cache is c, over the files of disk: the
\* cached record, or the parsed file, which is cached.
getMaturityDataIn(c, disk, specFilePath) ==
  LET maturityPath == getMaturityFilePath(specFilePath)
  IN IF maturityPath \in DOMAIN c
     THEN c[maturityPath]
     ELSE parseMaturityFile(disk, maturityPath)

getMaturityData(specFilePath) == getMaturityDataIn(cache, fs, specFilePath)

\* The cache once `data` is the record held for specFilePath.
CacheSet(specFilePath, data) ==
  (getMaturityFilePath(specFilePath) :> data) @@ cache

getScenarioMaturity(data, n, c) ==
  IF StoryKey(n) \notin DOMAIN data.userStories THEN "none"
  ELSE LET story == data.userStories[StoryKey(n)]
       IN IF c \in DOMAIN story.scenarios /\ Truthy(story.scenarios[c].level)
          THEN story.scenarios[c].level
          ELSE "none"

getTestsForScenario(data, n, c) ==
  IF StoryKey(n) \notin DOMAIN data.userStories THEN <<>>
  ELSE LET story == data.userStories[StoryKey(n)]
       IN IF c \in DOMAIN story.scenarios THEN story.scenarios[c].tests ELSE <<>>

\* tests.findIndex(t => t.testName === testName), 0-based, -1 when absent.
findIndex(tests, testName) ==
  indexOf([i \in 1..Len(tests) |-> tests[i].testName], testName)

\* getTestStatus without its `|| 'unknown'`.
getTestStatus_NoDefault(data, n, c, testName) ==
  LET tests == getTestsForScenario(data, n, c)
      i == findIndex(tests, testName)
  IN IF i >= 0 THEN tests[i + 1].status ELSE Undefined

getTestStatus(data, n, c, testName) ==
  LET tests == getTestsForScenario(data, n, c)
      i == findIndex(tests, testName)
  IN IF i >= 0 /\ Truthy(tests[i + 1].status) THEN tests[i + 1].status ELSE "unknown"

\* getUserStoryMaturity that returns the stored overall.
getUserStoryMaturity_StoredOverall(data, n) ==
  IF StoryKey(n) \notin DOMAIN data.userStories THEN "none"
  ELSE data.userStories[StoryKey(n)].overall

getUserStoryMaturity(data, n) ==
  IF StoryKey(n) \notin DOMAIN data.userStories THEN "none"
  ELSE LET story == data.userStories[StoryKey(n)]
           lowestIndex == LowerOver(story.scenarios, DOMAIN story.scenarios,
                                    Len(Levels) - 1)
           overallIndex == indexOf(Levels, story.overall)
       IN LevelAt(IF Truthy(story.overall) /\ overallIndex < lowestIndex
                  THEN overallIndex
                  ELSE lowestIndex)

\* ----------------------------------------------------------------- mutators
\* new Date().toISOString(): an ISO string is a date and a time of day;
\* .split('T')[0] keeps the date.
toISOString(t) == [date |-> t \div 2, time |-> t % 2]
DateOf(iso) == iso.date

\* The record once story n has an entry (created with overall none).
WithStory(data, n) ==
  IF StoryKey(n) \in DOMAIN data.userStories THEN data
  ELSE [data EXCEPT !.userStories =
          (StoryKey(n) :> [overall |-> "none", scenarios |-> <<>>]) @@ @]

\* setScenarioMaturity without the recalculation of overall.
ScenarioSet_OverallKept(data, n, c, level) ==
  LET d == WithStory(data, n)
      story == d.userStories[StoryKey(n)]
      tests == IF c \in DOMAIN story.scenarios THEN story.scenarios[c].tests ELSE <<>>
  IN [d EXCEPT !.userStories[StoryKey(n)].scenarios =
        (c :> [level |-> level, tests |-> tests]) @@ @]

\* setScenarioMaturity that sets the scenario with an empty test list.
ScenarioSet_TestsDropped(data, n, c, level) ==
  LET d == WithStory(data, n)
      story == d.userStories[StoryKey(n)]
      scenarios == (c :> [level |-> level, tests |-> <<>>]) @@ story.scenarios
  IN [d EXCEPT !.userStories[StoryKey(n)] =
        [overall |-> calculateOverallLevel(scenarios), scenarios |-> scenarios]]

\* setScenarioMaturity that calculates overall before it sets the scenario.
ScenarioSet_StaleOverall(data, n, c, level) ==
  LET d == WithStory(data, n)
      story == d.userStories[StoryKey(n)]
      tests == IF c \in DOMAIN story.scenarios THEN story.scenarios[c].tests ELSE <<>>
      scenarios == (c :> [level |-> level, tests |-> tests]) @@ story.scenarios
  IN [d EXCEPT !.userStories[StoryKey(n)] =
        [overall |-> calculateOverallLevel(story.scenarios), scenarios |-> scenarios]]

\* The in-place changes setScenarioMaturity makes to the cached record.
ScenarioSet(data, n, c, level) ==
  LET d == WithStory(data, n)
      story == d.userStories[StoryKey(n)]
      tests == IF c \in DOMAIN story.scenarios THEN story.scenarios[c].tests ELSE <<>>
      scenarios == (c :> [level |-> level, tests |-> tests]) @@ story.scenarios
  IN [d EXCEPT !.userStories[StoryKey(n)] =
        [overall |-> calculateOverallLevel(scenarios), scenarios |-> scenarios]]

\* addTest that always pushes.
TestAdded_AlwaysPushed(data, n, c, test) ==
  LET d == WithStory(data, n)
      story == d.userStories[StoryKey(n)]
      scenarioData == IF c \in DOMAIN story.scenarios THEN story.scenarios[c]
                      ELSE [level |-> "none", tests |-> <<>>]
  IN [d EXCEPT !.userStories[StoryKey(n)].scenarios =
        (c :> [scenarioData EXCEPT !.tests = Append(@, test)]) @@ @]

\* The in-place changes addTest makes to the cached record.
TestAdded(data, n, c, test) ==
  LET d == WithStory(data, n)
      story == d.userStories[StoryKey(n)]
      scenarioData == IF c \in DOMAIN story.scenarios THEN story.scenarios[c]
                      ELSE [level |-> "none", tests |-> <<>>]
      existingIndex == findIndex(scenarioData.tests, test.testName)
      tests == IF existingIndex >= 0
               THEN [scenarioData.tests EXCEPT ![existingIndex + 1] = test]
               ELSE Append(scenarioData.tests, test)
  IN [d EXCEPT !.userStories[StoryKey(n)].scenarios =
        (c :> [scenarioData EXCEPT !.tests = tests]) @@ @]

\* setTestStatus that sets the status and leaves lastRun as it was.
TestStatusSet_NoStamp(data, n, c, i, status, t) ==
  [data EXCEPT !.userStories[StoryKey(n)].scenarios[c].tests[i + 1].status = status]

\* The in-place changes setTestStatus makes to the entry it found at index i.
TestStatusSet(data, n, c, i, status, t) ==
  [data EXCEPT !.userStories[StoryKey(n)].scenarios[c].tests[i + 1] =
     [@ EXCEPT !.status = status, !.lastRun = <<DateOf(toISOString(t))>>]]

\* writeMaturityFile that writes the record as the files have it, not the
\* record it is given.
writeMaturityFile_FromDisk(specFilePath, data, inPlace) ==
  /\ fs' = IF writable
           THEN [fs EXCEPT ![getMaturityFilePath(specFilePath)] =
                   JsonText(maturityDataToJson(
                     parseMaturityFile(fs, getMaturityFilePath(specFilePath)),
                     toISOString(now)))]
           ELSE fs
  /\ cache' = IF writable THEN CacheSet(specFilePath, data) ELSE inPlace

\* writeMaturityFile that writes the record to the legacy file.
writeMaturityFile_Legacy(specFilePath, data, inPlace) ==
  /\ fs' = IF writable
           THEN [fs EXCEPT ![getLegacyMaturityFilePath(specFilePath)] =
                   JsonText(maturityDataToJson(data, toISOString(now)))]
           ELSE fs
  /\ cache' = IF writable THEN CacheSet(specFilePath, data) ELSE inPlace

\* writeMaturityFile: fs.writeFileSync either writes the text or throws and
\* leaves the file as it was; the cache is set only after a write.  The
\* record written is the cached object itself, changed in place before the
\* call, so the cache holds `data` in both cases.
writeMaturityFile(specFilePath, data, inPlace) ==
  /\ fs' = IF writable
           THEN [fs EXCEPT ![getMaturityFilePath(specFilePath)] =
                   JsonText(maturityDataToJson(data, toISOString(now)))]
           ELSE fs
  /\ cache' = IF writable THEN CacheSet(specFilePath, data) ELSE inPlace

\* A mutating event takes the instant `now`.
Event ==
  /\ now < MaxNow
  /\ now' = now + 1

Call(op, p, n, c, arg, ret) ==
  [op |-> op, path |-> p, story |-> n, scenario |-> c, arg |-> arg, ret |-> ret]

\* `last` names a call only in the state that call leaves.
NoCall == Call("none", <<>>, 0, "", "", "returned")

\* The three synchronous mutators.  Each takes the cached object (parsing and
\* caching the file on a miss) and changes it in place before it writes, so
\* the cache holds the change whether or not the write succeeds.
setScenarioMaturity(p, n, c, level) ==
  LET data == ScenarioSet(getMaturityData(p), n, c, level)
  IN /\ Event
     /\ writeMaturityFile(p, data, CacheSet(p, data))
     /\ last' = Call("setScenarioMaturity", p, n, c, level,
                     IF writable THEN "returned" ELSE "threw")
     /\ UNCHANGED <<writable, scan, parse, bulk, link, md, tree>>

addTest(p, n, c, test) ==
  LET data == TestAdded(getMaturityData(p), n, c, test)
  IN /\ Event
     /\ writeMaturityFile(p, data, CacheSet(p, data))
     /\ last' = Call("addTest", p, n, c, test, IF writable THEN "returned" ELSE "threw")
     /\ UNCHANGED <<writable, scan, parse, bulk, link, md, tree>>

setTestStatus(p, n, c, testName, status) ==
  LET read == getMaturityData(p)
      i == findIndex(getTestsForScenario(read, n, c), testName)
      data == TestStatusSet(read, n, c, i, status, now)
  IN /\ Event
     /\ IF i >= 0
        THEN writeMaturityFile(p, data, CacheSet(p, data))
        ELSE /\ cache' = CacheSet(p, read)
             /\ fs' = fs
     /\ last' = Call("setTestStatus", p, n, c, <<testName, status>>,
                     IF i >= 0 /\ ~writable THEN "threw" ELSE "returned")
     /\ UNCHANGED <<writable, scan, parse, bulk, link, md, tree>>

\* --------------------------------------------------- scanAndUpdateMaturity
\* No scan in flight.
IdleScan ==
  [pc |-> "idle", path |-> <<>>, shared |-> FALSE, data |-> <<>>,
   story |-> <<>>, visited |-> {}, found |-> <<>>]

\* The record a suspended scan holds in `data`: the cached object as long as
\* the cache still holds it (shared), else the object as the scan last saw it.
ScanData ==
  IF scan.shared THEN cache[getMaturityFilePath(scan.path)] ELSE scan.data

\* The scan after the cache entries `dropped` are deleted: its object lives on.
Detached(dropped) ==
  IF scan.shared /\ getMaturityFilePath(scan.path) \in dropped
  THEN [scan EXCEPT !.shared = FALSE, !.data = cache[getMaturityFilePath(scan.path)]]
  ELSE scan

\* test.testName.match(/US\d+-AS\d+/i), upper-cased; <<>> is no match.
ScenarioMatch(testName) ==
  CASE testName \in {"US1-AS1: works", "US1-AS1: again"} -> <<"US1-AS1">>
    [] testName = "us1-as2: fails" -> <<"US1-AS2">>
    [] OTHER -> <<>>

\* path.relative(workspaceRoot, filePath) for a file under the root.
relative(root, filePath) == filePath[2]

\* One iteration of `for (const test of tests)` on the story's entry.
ScanTest(story, test) ==
  IF test.testName = Undefined \/ ScenarioMatch(test.testName) = <<>> THEN story
  ELSE LET c == ScenarioMatch(test.testName)[1]
           scenarioData == IF c \in DOMAIN story.scenarios THEN story.scenarios[c]
                           ELSE [level |-> "none", tests |-> <<>>]
           testEntry == [filePath |-> relative(WorkspaceRoot, test.filePath),
                         testName |-> test.testName,
                         status |-> IF test.passStatus = Undefined THEN "unknown"
                                    ELSE test.passStatus,
                         lastRun |-> test.passDate]
           existingIndex == findIndex(scenarioData.tests, test.testName)
           tests == IF existingIndex >= 0
                    THEN [scenarioData.tests EXCEPT ![existingIndex + 1] = testEntry]
                    ELSE Append(scenarioData.tests, testEntry)
           allPassing == \A i \in 1..Len(tests) : tests[i].status = "pass"
       IN [story EXCEPT !.scenarios =
             (c :> [level |-> IF allPassing THEN "complete" ELSE "partial",
                    tests |-> tests]) @@ @]

RECURSIVE ScanTests(_, _, _)
ScanTests(story, tests, i) ==
  IF i > Len(tests) THEN story
  ELSE ScanTests(ScanTest(story, tests[i]), tests, i + 1)

\* The body of the story loop after its await: the tests found are recorded
\* and the story's overall is recalculated.
ScanStory(data, key, tests) ==
  LET story == ScanTests(data.userStories[key], tests, 1)
  IN [data EXCEPT !.userStories[key] =
        [story EXCEPT !.overall = calculateOverallLevel(story.scenarios)]]

\* The call up to its first await.  With no story in the record there is no
\* await and the file is written in the same step.  The Map is iterated in
\* insertion order, which the model does not keep: any order is allowed.
scanAndUpdateMaturity(p) ==
  LET data == getMaturityData(p)
  IN /\ scan.pc = "idle"
     /\ IF DOMAIN data.userStories = {}
        THEN /\ Event
             /\ writeMaturityFile(p, data, CacheSet(p, data))
             /\ scan' = scan
             /\ last' = Call("scanAndUpdateMaturity", p, 0, "", <<>>,
                             IF writable THEN "resolved" ELSE "rejected")
        ELSE /\ cache' = CacheSet(p, data)
             /\ fs' = fs
             /\ \E key \in DOMAIN data.userStories :
                  scan' = [pc |-> "awaiting", path |-> p, shared |-> TRUE,
                           data |-> <<>>, story |-> key, visited |-> {},
                           found |-> <<>>]
             /\ last' = Call("scanAndUpdateMaturity", p, 0, "", <<>>, "pending")
             /\ now' = now
     /\ UNCHANGED <<writable, parse, bulk, link, md, tree>>

\* findTestsForStory resolves with `tests` and the scan runs on to its next
\* await, or to the write after the last story.  What findTestsForStory
\* resolved with, story by story, is kept and named with the call's outcome.
ScanResume(tests) ==
  LET data == ScanData
      next == ScanStory(data, scan.story, tests)
      visited == scan.visited \cup {scan.story}
      rest == DOMAIN next.userStories \ visited
      inPlace == IF scan.shared THEN CacheSet(scan.path, next) ELSE cache
      found == Append(scan.found, [key |-> scan.story, tests |-> tests])
  IN /\ scan.pc = "awaiting"
     /\ IF rest = {}
        THEN /\ Event
             /\ writeMaturityFile(scan.path, next, inPlace)
             /\ scan' = IdleScan
             /\ last' = Call("scanAndUpdateMaturity", scan.path, 0, "", found,
                             IF writable THEN "resolved" ELSE "rejected")
        ELSE /\ cache' = inPlace
             /\ fs' = fs
             /\ \E key \in rest :
                  scan' = [scan EXCEPT !.story = key, !.visited = visited,
                                       !.found = found,
                                       !.data = IF scan.shared THEN <<>> ELSE next]
             /\ last' = NoCall
             /\ now' = now
     /\ UNCHANGED <<writable, parse, bulk, link, md, tree>>

\* ------------------------------------------------------- cache and accessors
clearCache(p) ==
  /\ cache' = [m \in DOMAIN cache \ {getMaturityFilePath(p)} |-> cache[m]]
  /\ scan' = Detached({getMaturityFilePath(p)})
  /\ last' = Call("clearCache", p, 0, "", "", "returned")
  /\ UNCHANGED <<fs, now, writable, parse, bulk, link, md, tree>>

clearCacheAll ==
  /\ cache' = <<>>
  /\ scan' = Detached(DOMAIN cache)
  /\ last' = Call("clearCache", <<>>, 0, "", "", "returned")
  /\ UNCHANGED <<fs, now, writable, parse, bulk, link, md, tree>>

\* A call of any of the four accessors (getScenarioMaturity,
\* getTestsForScenario, getTestStatus, getUserStoryMaturity) on a spec: each
\* begins with getMaturityData, which caches the record it parsed; that is
\* their only effect.  What they return is given by the operators of their
\* names, applied to getMaturityData.
Access(p) ==
  /\ cache' = CacheSet(p, getMaturityData(p))
  /\ last' = NoCall
  /\ UNCHANGED <<fs, now, writable, scan, parse, bulk, link, md, tree>>

\* ------------------------------------------------- files written by others
\* JSON texts a person or tool may leave in maturity.json.
Scn(id, level, tests) == [id |-> id, level |-> level, tests |-> tests]
Story(n, overall, scenarios) ==
  [key |-> StoryKey(n), overall |-> overall, scenarios |-> scenarios]
\* An instant before the store was constructed.
Earlier == [date |-> -1, time |-> 0]
ExternalJson ==
  { [lastUpdated |-> <<Earlier>>,
     testConfig |-> <<>>,
     userStories |-> <<Story(1, "complete",
                             <<Scn("US1-AS1", "complete", <<>>),
                               Scn("US1-AS2", "partial", <<>>)>>)>>],
    [lastUpdated |-> <<Earlier>>,
     testConfig |-> <<[runSingleTestCommand |-> "npx playwright test"]>>,
     userStories |->
       <<Story(2, "partial", <<Scn("US2-AS1", "partial", <<>>)>>),
         Story(1, "partial",
               <<Scn("US1-AS1", "complete",
                     <<[filePath |-> TestFile, testName |-> "US1-AS1: works",
                        status |-> "pass", lastRun |-> <<-1>>],
                       [filePath |-> TestFile, testName |-> "US1-AS1: again",
                        status |-> "unknown", lastRun |-> NoDate]>>)>>)>>] }

\* JSON texts that parse but do not fit MaturityDataJson: a level that is no
\* MaturityLevel, a scenario without level, a story without overall.
MalformedJson ==
  { [lastUpdated |-> <<Earlier>>,
     testConfig |-> <<>>,
     userStories |-> <<Story(1, "partial", <<Scn("US1-AS1", "done", <<>>)>>)>>],
    [lastUpdated |-> <<Earlier>>,
     testConfig |-> <<>>,
     userStories |-> <<Story(1, Undefined, <<Scn("US1-AS1", "complete", <<>>),
                                              Scn("US1-AS2", Undefined, <<>>)>>)>>] }

\* Legacy texts a person or tool may leave in maturity.md.
Line(kind, key, value) == [kind |-> kind, key |-> key, value |-> value]
ExternalLegacy ==
  { <<Line("lastUpdated", "", Earlier),
      Line("entry", "US1-AS2", "complete"),
      Line("other", "", ""),
      Line("story", StoryKey(1), ""),
      Line("entry", "Overall", "partial"),
      Line("entry", "US1-AS1", "Complete"),
      Line("entry", "US1-AS2", "done"),
      Line("story", StoryKey(2), ""),
      Line("entry", "US2-AS1", "partial")>> }

Contents(path) ==
  IF path[2] = "maturity.json"
  THEN {Absent, Corrupt} \cup {JsonText(j) : j \in ExternalJson}
  ELSE {Absent} \cup {LegacyText(l) : l \in ExternalLegacy}

\* Another writer (an editor, a person) creates, rewrites or deletes a file.
ExternalWrite(path, content) ==
  /\ Event
  /\ fs[path] # content
  /\ fs' = [fs EXCEPT ![path] = content]
  /\ last' = NoCall
  /\ UNCHANGED <<cache, writable, scan, parse, bulk, link, md, tree>>

\* The directory's permissions change (or the disk fills up, or has room
\* again): from now on fs.writeFileSync throws, or succeeds again.
ExternalChmod ==
  /\ Event
  /\ writable' = ~writable
  /\ last' = NoCall
  /\ UNCHANGED <<fs, cache, scan, parse, bulk, link, md, tree>>

\* ------------------------------------------------------------- SpecParser
\* A line of a specification document, by what the parser's patterns and
\* string tests see in it.  kind: "heading" ("### User Story <number> -
\* <title> (Priority: <priority>)"), "marker" (contains "**Acceptance
\* Scenarios", suffix "" or the section qualifier), "rule" (starts with
\* "---"), "explicit" ("<number><suffix>. **<id>**: **Given** ..."),
\* "implicit" ("<number>. **Given** ..."), "why", "independent", "bold"
\* (another line starting with "**"), "blank", "text".
Ln(kind, number, suffix, priority, id) ==
  [kind |-> kind, number |-> number, suffix |-> suffix, priority |-> priority, id |-> id]

\* The string `US${story}-AS${number}${suffix}`, by its parts.
ScenarioIdOf(story, number, suffix) == <<"US", story, "-AS", number, suffix>>

H1 == Ln("heading", 1, "", "P1", <<>>)
H2 == Ln("heading", 2, "", "P4", <<>>)
M == Ln("marker", 0, "", "", <<>>)
MQ == Ln("marker", 0, "Edge Cases", "", <<>>)
R == Ln("rule", 0, "", "", <<>>)
E1 == Ln("explicit", 1, "", "", ScenarioIdOf(1, 1, ""))
E1a == Ln("explicit", 1, "a", "", ScenarioIdOf(1, 1, "a"))
I1 == Ln("implicit", 1, "", "", <<>>)
T == Ln("text", 0, "", "", <<>>)
DocLines == {H1, H2, M, MQ, R, E1, E1a, I1, T}

userStoryPattern_AnyText(line) == line.kind \in {"heading", "text"}
\* /^### User Story (\d+) - (.+?) \(Priority: (P\d)\)/
userStoryPattern(line) ==
  line.kind = "heading" /\ line.priority \in {"P0", "P1", "P2", "P3", "P4", "P5", "P6", "P7", "P8", "P9"}
scenarioWithIdPattern(line) == line.kind = "explicit"
scenarioPattern(line) == line.kind = "implicit"
isMarker_PlainOnly(line) == line.kind = "marker" /\ line.suffix = ""
\* line.includes('**Acceptance Scenarios')
isMarker(line) == line.kind = "marker"
\* line.startsWith('---')
isRule(line) == line.kind = "rule"
\* line.trim() && !line.startsWith('**')
isDescription(line) == line.kind \notin {"blank", "bold", "marker", "why", "independent"}

\* The numeric part of a list marker "1", "1a", "2b".
parseScenarioNumber(line) == line.number

Null == <<>>

NewStory(line, lineNum) ==
  [number |-> line.number, priority |-> line.priority, startLine |-> lineNum,
   endLine |-> lineNum, description |-> <<>>, acceptanceScenarios |-> <<>>]

NewScenario_Synthesized(story, line, lineNum) ==
  IF scenarioWithIdPattern(line) \/ scenarioPattern(line)
  THEN <<[number |-> line.number, id |-> ScenarioIdOf(story.number, line.number, ""),
          line |-> lineNum]>>
  ELSE <<>>

\* The scenario a line read inside an "Acceptance Scenarios" section adds to
\* the open story: none, or one.  The pattern with an identifier is tried first.
NewScenario(story, line, lineNum) ==
  IF scenarioWithIdPattern(line)
  THEN <<[number |-> parseScenarioNumber(line), id |-> line.id, line |-> lineNum]>>
  ELSE IF scenarioPattern(line)
  THEN <<[number |-> line.number, id |-> ScenarioIdOf(story.number, line.number, ""),
          line |-> lineNum]>>
  ELSE <<>>

\* featureSpec.userStories once the open story, if any, is closed and pushed.
CloseStory(st) ==
  IF st.currentStory # Null
  THEN Append(st.userStories,
              [st.currentStory[1] EXCEPT !.endLine = st.currentStoryEndLine])
  ELSE st.userStories

\* One iteration of the loop over the lines: st holds the locals of
\* parseSpecFile, line is lines[i] and lineNum is i + 1.
ScanStep(st, line, lineNum) ==
  IF userStoryPattern(line)
  THEN [st EXCEPT !.userStories = CloseStory(st),
                  !.currentStory = <<NewStory(line, lineNum)>>,
                  !.inAcceptanceScenarios = FALSE]
  ELSE IF st.currentStory = Null THEN st
  ELSE LET story == st.currentStory[1]
           seen == [st EXCEPT !.currentStoryEndLine = lineNum]
       IN IF line.kind \in {"why", "independent"} THEN seen
          ELSE IF isMarker(line) THEN [seen EXCEPT !.inAcceptanceScenarios = TRUE]
          ELSE IF isRule(line) THEN [seen EXCEPT !.inAcceptanceScenarios = FALSE]
          ELSE IF st.inAcceptanceScenarios
          THEN [seen EXCEPT !.currentStory[1].acceptanceScenarios =
                              @ \o NewScenario(story, line, lineNum)]
          ELSE IF story.description = <<>> /\ isDescription(line)
          THEN [seen EXCEPT !.currentStory[1].description = <<line>>]
          ELSE seen

\* The number a directory name starts with: /^(\d+)-/, else 0.
extractNumber(dirName) ==
  CASE dirName = "001-a" -> 1
    [] dirName = "002-b" -> 2
    [] OTHER -> 0

FeatureSpecOf(dirName, userStories) ==
  [name |-> dirName, number |-> extractNumber(dirName), userStories |-> userStories]

\* The parseSpecFile call before it starts, with its locals as they are before
\* the loop.
NoParse ==
  [pc |-> "start", readable |-> TRUE, lines |-> <<>>, currentStory |-> Null,
   currentStoryEndLine |-> 0, inAcceptanceScenarios |-> FALSE,
   userStories |-> <<>>, result |-> Null]

NoBulk == [pc |-> "idle", exists |-> TRUE, entries |-> <<>>, todo |-> <<>>, specs |-> <<>>]

\* parseSpecFile up to the loop.  The document is revealed to the model line
\* by line as the loop reads it; a file that cannot be read throws inside the
\* try, and the catch logs the error and returns null.
parseSpecFile(readable) ==
  /\ parse.pc = "start" /\ bulk.pc = "idle"
  /\ parse' = IF readable
              THEN [parse EXCEPT !.pc = "scanning"]
              ELSE [parse EXCEPT !.pc = "returned", !.readable = FALSE, !.result = Null]
  /\ UNCHANGED <<fs, cache, now, writable, last, scan, bulk, link, md, tree>>

\* One iteration of the loop of parseSpecFile.
ScanLine(line) ==
  /\ parse.pc = "scanning"
  /\ Len(parse.lines) < MaxLines
  /\ parse' = ScanStep([parse EXCEPT !.lines = Append(@, line)], line, Len(parse.lines) + 1)
  /\ UNCHANGED <<fs, cache, now, writable, last, scan, bulk, link, md, tree>>

\* The end of the input: the open story is closed and the FeatureSpec returned.
ParseReturn ==
  /\ parse.pc = "scanning"
  /\ parse' = [parse EXCEPT !.pc = "returned",
                            !.userStories = CloseStory(parse),
                            !.result = <<FeatureSpecOf("001-a", CloseStory(parse))>>]
  /\ UNCHANGED <<fs, cache, now, writable, last, scan, bulk, link, md, tree>>

\* parseSpecFile as one call, for the callers that await it.
RECURSIVE ScanLines(_, _, _)
ScanLines(st, lines, i) ==
  IF i > Len(lines) THEN st ELSE ScanLines(ScanStep(st, lines[i], i), lines, i + 1)
ParseDocument(dirName, file) ==
  IF file.readable
  THEN <<FeatureSpecOf(dirName, CloseStory(ScanLines(NoParse, file.lines, 1)))>>
  ELSE Null

\* specs.sort((a, b) => a.number - b.number): stable.
RECURSIVE SortSpecs(_)
SortSpecs(specs) ==
  IF specs = <<>> THEN <<>>
  ELSE LET least == CHOOSE i \in 1..Len(specs) :
                      \A j \in 1..Len(specs) :
                        \/ specs[i].number < specs[j].number
                        \/ specs[i].number = specs[j].number /\ i <= j
       IN <<specs[least]>>
            \o SortSpecs([k \in 1..(Len(specs) - 1) |->
                            IF k < least THEN specs[k] ELSE specs[k + 1]])

\* What fs.readdirSync can list in the specs directory: two feature
\* directories, each with no spec.md, a spec.md that cannot be read or a
\* spec.md of three lines, and a file that is not a directory.
Listings ==
  LET NoFile == [exists |-> FALSE, readable |-> FALSE, lines |-> <<>>]
      SpecFiles == {NoFile,
                    [exists |-> TRUE, readable |-> FALSE, lines |-> <<>>],
                    [exists |-> TRUE, readable |-> TRUE, lines |-> <<H1, M, I1>>]}
      Entry(name, isDirectory, file) ==
        [name |-> name, isDirectory |-> isDirectory, file |-> file]
  IN { <<Entry("002-b", TRUE, f2), Entry("notes", FALSE, NoFile), Entry("001-a", TRUE, f1)>> :
         f1 \in SpecFiles, f2 \in SpecFiles }

\* parseAllSpecs up to its loop: without the specs directory it returns [].
parseAllSpecs(exists, listing) ==
  /\ bulk.pc = "idle" /\ parse.pc = "start"
  /\ bulk' = IF exists
             THEN [bulk EXCEPT !.pc = "entries", !.entries = listing, !.todo = listing]
             ELSE [bulk EXCEPT !.pc = "returned", !.exists = FALSE]
  /\ UNCHANGED <<fs, cache, now, writable, last, scan, parse, link, md, tree>>

\* One iteration of the loop over the directory entries.
BulkEntry ==
  /\ bulk.pc = "entries" /\ bulk.todo # <<>>
  /\ LET entry == Head(bulk.todo)
         spec == IF entry.isDirectory /\ entry.file.exists
                 THEN ParseDocument(entry.name, entry.file)
                 ELSE Null
     IN bulk' = [bulk EXCEPT !.todo = Tail(@), !.specs = @ \o spec]
  /\ UNCHANGED <<fs, cache, now, writable, last, scan, parse, link, md, tree>>

BulkReturn ==
  /\ bulk.pc = "entries" /\ bulk.todo = <<>>
  /\ bulk' = [bulk EXCEPT !.pc = "returned", !.specs = SortSpecs(@)]
  /\ UNCHANGED <<fs, cache, now, writable, last, scan, parse, link, md, tree>>

\* ------------------------------------------------------------- TestLinker
\* The names of the entries of the tests directory, each a sequence of
\* characters; ".spec", ".test" and ".ts" stand for their characters.
Names ==
  [strict |-> <<"u", "s", "1", "-", "a", ".spec", ".ts">>,
   inner |-> <<"a", "-", "u", "s", "1", "-", "b", ".spec", ".ts">>,
   upper |-> <<"U", "S", "1", ".test", ".ts">>,
   ten |-> <<"u", "s", "1", "0", ".spec", ".ts">>,
   long |-> <<"u", "s", "e", "r", "-", "s", "t", "o", "r", "y", "-", "1", ".spec", ".ts">>,
   twelve |-> <<"s", "t", "o", "r", "y", "1", "2", ".test", ".ts">>,
   helper |-> <<"u", "s", "1", ".ts">>,
   sub |-> <<"s", "u", "b">>]

\* path.join(dir, name), as the directories under the tests directory and the
\* name: path.basename is the name.
FilePath(dir, name) == [dir |-> dir, name |-> name]

\* A word of a test name.  Token(story, digits) is the text
\* "US<story>-AS<scenario>", the scenario by the word characters that follow
\* "AS": a digit as itself, the letter "a" as 10; story 0 is a bare
\* "AS<scenario>", and story -1 a word that holds neither.
Token(story, digits) == [story |-> story, digits |-> digits]

\* A line of a test source file, by what parseTestFile's patterns and string
\* tests see in it.  kind: "test" (/^\s*test\(['"`]([^'"`]+)['"`]/ matches, the
\* name a sequence of words), "spec" (a comment
\* "// @spec: <feature>/US<story>-AS<scenario>", the annotation the Token
\* after the feature), "blank" (empty when
\* trimmed), "close" (contains "});"), "code" (anything else).  tick tells the
\* unescaped backticks of the line: "none" for an even number; one that opens
\* or closes a multi-line template string is "template"; one inside a comment
\* or a quoted string is "stray".
SrcLine(kind, name, annotation, tick) ==
  [kind |-> kind, name |-> name, annotation |-> annotation, tick |-> tick]
Src ==
  [named |-> SrcLine("test", <<Token(1, <<2>>), Token(-1, <<>>)>>, <<>>, "none"),
   plain |-> SrcLine("test", <<Token(-1, <<>>)>>, <<>>, "none"),
   opening |-> SrcLine("test", <<Token(-1, <<>>)>>, <<>>, "template"),
   spec2 |-> SrcLine("spec", <<>>, <<Token(1, <<2>>)>>, "none"),
   spec3 |-> SrcLine("spec", <<>>, <<Token(1, <<3>>)>>, "none"),
   blank |-> SrcLine("blank", <<>>, <<>>, "none"),
   close |-> SrcLine("close", <<>>, <<>>, "none"),
   fence |-> SrcLine("code", <<>>, <<>>, "template"),
   stray |-> SrcLine("code", <<>>, <<>>, "stray"),
   named20 |-> SrcLine("test", <<Token(1, <<2, 0>>)>>, <<>>, "none"),
   other |-> SrcLine("test", <<Token(3, <<2>>)>>, <<>>, "none"),
   spec20 |-> SrcLine("spec", <<>>, <<Token(1, <<2, 0>>)>>, "none"),
   named2a |-> SrcLine("test", <<Token(1, <<2, 10>>)>>, <<>>, "none")]

\* The look-back of parseTestFile from line j down to line low: it stops at a
\* line that is empty when trimmed or contains "test(" or "});", and every
\* annotation it passes replaces the one found so far.
RECURSIVE LookBack(_, _, _, _)
LookBack(lines, j, low, found) ==
  IF j < low THEN found
  ELSE IF lines[j].kind \in {"blank", "test", "close"} THEN found
  ELSE LookBack(lines, j - 1, low,
                IF lines[j].annotation # <<>> THEN lines[j].annotation ELSE found)

\* The record of a file in which no test was recognised.
BareTest(filePath) ==
  [filePath |-> filePath, fileName |-> filePath.name, testName |-> <<>>,
   line |-> <<>>, specAnnotation |-> <<>>]

\* One iteration of the loop of parseTestFile over the lines: st holds
\* insideTemplateString and tests, line is lines[i - 1] and i is i + 1.
ParseTestStep(st, filePath, lines, i) ==
  LET inside == IF lines[i].tick # "none" THEN ~st.insideTemplateString
                ELSE st.insideTemplateString
      low == IF i - 3 > 1 THEN i - 3 ELSE 1
  IN [st EXCEPT
        !.insideTemplateString = inside,
        !.tests = IF ~inside /\ lines[i].kind = "test"
                  THEN Append(@, [BareTest(filePath) EXCEPT
                                    !.testName = <<lines[i].name>>,
                                    !.line = <<i>>,
                                    !.specAnnotation = LookBack(lines, i - 1, low, <<>>)])
                  ELSE @]

\* No call of the linker.
NoLink ==
  [pc |-> "idle", op |-> "none", filePath |-> FilePath(<<>>, <<>>), lines |-> <<>>,
   insideTemplateString |-> FALSE, tests |-> <<>>, exists |-> TRUE, listing |-> <<>>,
   story |-> 0, scenario |-> 0, id |-> <<>>, result |-> <<>>]

\* parseTestFile up to its loop.  The content of the file is revealed to the
\* model line by line as the loop reads it.
parseTestFile(filePath) ==
  /\ link.pc = "idle"
  /\ link' = [link EXCEPT !.pc = "scanning", !.op = "parseTestFile", !.filePath = filePath]
  /\ UNCHANGED <<fs, cache, now, writable, last, scan, parse, bulk, md, tree>>

\* One iteration of the loop of parseTestFile.
ParseTestLine(line) ==
  /\ link.pc = "scanning"
  /\ Len(link.lines) < MaxLines
  /\ link' = ParseTestStep([link EXCEPT !.lines = Append(@, line)], link.filePath,
                           Append(link.lines, line), Len(link.lines) + 1)
  /\ UNCHANGED <<fs, cache, now, writable, last, scan, parse, bulk, md, tree>>

\* The end of the file: the tests, or the one record of a file without tests.
ParseTestReturn ==
  /\ link.pc = "scanning"
  /\ link' = [link EXCEPT !.pc = "returned",
                          !.result = IF link.tests = <<>> THEN <<BareTest(link.filePath)>>
                                     ELSE link.tests]
  /\ UNCHANGED <<fs, cache, now, writable, last, scan, parse, bulk, md, tree>>

\* parseTestFile as one call, from line i on.
RECURSIVE ParseTestLines(_, _, _, _)
ParseTestLines(st, filePath, lines, i) ==
  IF i > Len(lines) THEN (IF st.tests = <<>> THEN <<BareTest(filePath)>> ELSE st.tests)
  ELSE ParseTestLines(ParseTestStep(st, filePath, lines, i), filePath, lines, i + 1)

\* What follows pat where it matches name, case-insensitively, at position i:
\* the next character, "$" at the end of the name, "" when it does not match.
After(name, i, pat) ==
  LET lower(c) == CASE c = "U" -> "u" [] c = "S" -> "s" [] OTHER -> c
      end == i + Len(pat) - 1
  IN IF end <= Len(name) /\ \A k \in 1..Len(pat) : lower(name[i + k - 1]) = pat[k]
     THEN (IF end = Len(name) THEN "$" ELSE name[end + 1])
     ELSE ""

\* `${n}`, by its digits, and by its characters.
DigitsOf(n) == IF n < 10 THEN <<n>> ELSE <<n \div 10, n % 10>>
String(n) ==
  [k \in 1..Len(DigitsOf(n)) |->
     <<"0", "1", "2", "3", "4", "5", "6", "7", "8", "9">>[DigitsOf(n)[k] + 1]]

matchesUserStory_NoGuard(fileName, storyNumber) ==
  \E i \in 1..Len(fileName) : After(fileName, i, <<"u", "s">> \o String(storyNumber)) # ""

\* The four patterns of matchesUserStory: us<n>(-|$), us<n>[^0-9],
\* user-story-<n>[^0-9], story<n>[^0-9], each anywhere in the name.
matchesUserStory(fileName, storyNumber) ==
  LET n == String(storyNumber)
      digit == {"0", "1", "2", "3", "4", "5", "6", "7", "8", "9"}
      story == <<"s", "t", "o", "r", "y">>
  IN \E i \in 1..Len(fileName) :
       \/ After(fileName, i, <<"u", "s">> \o n) \in {"-", "$"}
       \/ After(fileName, i, <<"u", "s">> \o n) \notin {"", "$"} \cup digit
       \/ After(fileName, i, <<"u", "s", "e", "r", "-">> \o story \o <<"-">> \o n)
            \notin {"", "$"} \cup digit
       \/ After(fileName, i, story \o n) \notin {"", "$"} \cup digit

\* a.localeCompare(b) for two names: the first difference of letters, digits
\* and punctuation decides, whatever the case; between names equal but for
\* case, lower case comes first.
localeCompare(a, b) ==
  LET order == <<"-", ".spec", ".test", ".ts", "0", "1", "2", "a", "b", "e", "o", "r",
                 "s", "t", "u", "y">>
      lower(c) == CASE c = "U" -> "u" [] c = "S" -> "s" [] OTHER -> c
      rank(c) == CHOOSE r \in 1..Len(order) : order[r] = lower(c)
      RECURSIVE from(_, _)
      from(i, tie) ==
        IF i > Len(a) /\ i > Len(b) THEN tie
        ELSE IF i > Len(a) THEN -1
        ELSE IF i > Len(b) THEN 1
        ELSE IF rank(a[i]) < rank(b[i]) THEN -1
        ELSE IF rank(a[i]) > rank(b[i]) THEN 1
        ELSE from(i + 1, IF tie # 0 \/ a[i] = b[i] THEN tie
                         ELSE IF a[i] = lower(a[i]) THEN -1 ELSE 1)
  IN from(1, 0)

\* findTestFiles: the .spec.ts and .test.ts files under a directory, in the
\* order fs.readdirSync lists the entries, each with its content.
RECURSIVE findTestFiles(_, _)
findTestFiles(dir, entries) ==
  IF entries = <<>> THEN <<>>
  ELSE LET entry == Head(entries)
           name == entry.name
       IN (IF entry.isDirectory THEN findTestFiles(Append(dir, name), entry.entries)
           ELSE IF /\ Len(name) >= 2
                   /\ name[Len(name)] = ".ts"
                   /\ name[Len(name) - 1] \in {".spec", ".test"}
           THEN <<[filePath |-> FilePath(dir, name), lines |-> entry.lines]>>
           ELSE <<>>)
          \o findTestFiles(dir, Tail(entries))

\* testFiles.sort(...) of findTestFileForStory: names that start with
\* us<n>- (or are us<n>) first, then by localeCompare of the names; stable.
RECURSIVE SortFiles(_, _)
SortFiles(files, storyNumber) ==
  IF files = <<>> THEN <<>>
  ELSE LET compare(x, y) ==
             LET matchA == After(x.filePath.name, 1, <<"u", "s">> \o String(storyNumber))
                             \in {"-", "$"}
                 matchB == After(y.filePath.name, 1, <<"u", "s">> \o String(storyNumber))
                             \in {"-", "$"}
             IN IF matchA /\ ~matchB THEN -1
                ELSE IF ~matchA /\ matchB THEN 1
                ELSE localeCompare(x.filePath.name, y.filePath.name)
           least == CHOOSE i \in 1..Len(files) :
                      \A j \in 1..Len(files) :
                        \/ compare(files[i], files[j]) < 0
                        \/ compare(files[i], files[j]) = 0 /\ i <= j
       IN <<files[least]>>
            \o SortFiles([k \in 1..(Len(files) - 1) |->
                            IF k < least THEN files[k] ELSE files[k + 1]], storyNumber)

\* What findTestsForStory resolves with.
StoryTests(exists, listing, storyNumber) ==
  LET RECURSIVE tests(_)
      tests(files) ==
        IF files = <<>> THEN <<>>
        ELSE (IF matchesUserStory(Head(files).filePath.name, storyNumber)
              THEN ParseTestLines(NoLink, Head(files).filePath, Head(files).lines, 1)
              ELSE <<>>) \o tests(Tail(files))
  IN IF exists THEN tests(findTestFiles(<<>>, listing)) ELSE <<>>

\* What findTestFileForStory returns: no file, or one.
StoryFile(exists, listing, storyNumber) ==
  LET sortedFiles == SortFiles(findTestFiles(<<>>, listing), storyNumber)
      matching == {i \in 1..Len(sortedFiles) :
                     matchesUserStory(sortedFiles[i].filePath.name, storyNumber)}
  IN IF exists /\ matching # {}
     THEN <<sortedFiles[CHOOSE i \in matching : \A j \in matching : i <= j].filePath>>
     ELSE <<>>

\* What the tests directory can hold.
Pool ==
  LET File(name, lines) ==
        [name |-> name, isDirectory |-> FALSE, entries |-> <<>>, lines |-> lines]
  IN {File(Names.strict, <<Src.spec2, Src.plain>>),
      File(Names.inner, <<Src.spec3, Src.named, Src.named20, Src.named2a>>),
      File(Names.upper, <<Src.spec20, Src.plain, Src.other>>),
      File(Names.ten, <<Src.named>>),
      File(Names.long, <<Src.blank>>),
      File(Names.twelve, <<Src.named>>),
      File(Names.helper, <<Src.named>>),
      [name |-> Names.sub, isDirectory |-> TRUE, lines |-> <<>>,
       entries |-> <<File(Names.strict, <<Src.spec2, Src.blank, Src.plain>>)>>]}
\* What fs.readdirSync can list in it: up to MaxEntries entries, in any order.
TestListings ==
  UNION {{listing \in [1..n -> Pool] :
            \A i \in 1..n, j \in 1..n : listing[i] = listing[j] => i = j} :
         n \in 1..MaxEntries}

\* findTestsForStory, on a tests directory that exists or not.
findTestsForStory(exists, storyNumber) ==
  /\ link.pc = "idle"
  /\ \E listing \in IF exists THEN TestListings ELSE {<<>>} :
       link' = [link EXCEPT !.pc = "returned", !.op = "findTestsForStory",
                            !.exists = exists, !.listing = listing, !.story = storyNumber,
                            !.result = StoryTests(exists, listing, storyNumber)]
  /\ UNCHANGED <<fs, cache, now, writable, last, scan, parse, bulk, md, tree>>

findTestFileForStory(exists, storyNumber) ==
  /\ link.pc = "idle"
  /\ \E listing \in IF exists THEN TestListings ELSE {<<>>} :
       link' = [link EXCEPT !.pc = "returned", !.op = "findTestFileForStory",
                            !.exists = exists, !.listing = listing, !.story = storyNumber,
                            !.result = StoryFile(exists, listing, storyNumber)]
  /\ UNCHANGED <<fs, cache, now, writable, last, scan, parse, bulk, md, tree>>

\* The filter of findTestsForScenario: an annotation counts when its scenario
\* number is scenarioNumber, whatever its story; otherwise the name counts
\* when /US<story>-AS<scenario>|AS<scenario>/i matches it.
scenarioFilter(test, storyNumber, scenarioNumber) ==
  LET starts(word) ==
        /\ Len(DigitsOf(scenarioNumber)) <= Len(word.digits)
        /\ SubSeq(word.digits, 1, Len(DigitsOf(scenarioNumber))) = DigitsOf(scenarioNumber)
  IN IF /\ test.specAnnotation # <<>>
        /\ test.specAnnotation[1].digits = DigitsOf(scenarioNumber)
     THEN TRUE
     ELSE IF test.testName # <<>>
     THEN \E k \in 1..Len(test.testName[1]) :
            \/ test.testName[1][k].story = storyNumber /\ starts(test.testName[1][k])
            \/ test.testName[1][k].story >= 0 /\ starts(test.testName[1][k])
     ELSE FALSE

\* The filter of refresh: an annotation counts when it includes
\* "US<story>-AS<scenario>"; without one the name counts when
\* /US<story>-AS<scenario>\b/ matches it.
linkedFilter(test, storyNumber, scenarioNumber) ==
  IF test.specAnnotation # <<>>
  THEN /\ test.specAnnotation[1].story = storyNumber
       /\ Len(DigitsOf(scenarioNumber)) <= Len(test.specAnnotation[1].digits)
       /\ SubSeq(test.specAnnotation[1].digits, 1, Len(DigitsOf(scenarioNumber)))
            = DigitsOf(scenarioNumber)
  ELSE IF test.testName # <<>>
  THEN \E k \in 1..Len(test.testName[1]) :
         /\ test.testName[1][k].story = storyNumber
         /\ test.testName[1][k].digits = DigitsOf(scenarioNumber)
  ELSE FALSE

\* findTestsForScenario: the tests of the story, filtered.
findTestsForScenario(exists, storyNumber, scenarioNumber) ==
  /\ link.pc = "idle"
  /\ \E listing \in IF exists THEN TestListings ELSE {<<>>} :
       LET storyTests == StoryTests(exists, listing, storyNumber)
       IN link' = [link EXCEPT
                     !.pc = "returned", !.op = "findTestsForScenario", !.exists = exists,
                     !.listing = listing, !.story = storyNumber,
                     !.scenario = scenarioNumber, !.tests = storyTests,
                     !.result = SelectSeq(storyTests,
                                  LAMBDA t : scenarioFilter(t, storyNumber, scenarioNumber))]
  /\ UNCHANGED <<fs, cache, now, writable, last, scan, parse, bulk, md, tree>>

\* refresh, for one scenario (as the parser made it) of one story of a spec
\* whose test directory is configured: the tests of the story, and the
\* scenario's linkedTests.
refreshScenario(exists, storyNumber, scenario) ==
  /\ link.pc = "idle"
  /\ \E listing \in IF exists THEN TestListings ELSE {<<>>} :
       LET tests == StoryTests(exists, listing, storyNumber)
       IN link' = [link EXCEPT
                     !.pc = "returned", !.op = "refresh", !.exists = exists,
                     !.listing = listing, !.story = storyNumber,
                     !.scenario = scenario.number, !.id = scenario.id, !.tests = tests,
                     !.result = SelectSeq(tests,
                                  LAMBDA t : linkedFilter(t, storyNumber, scenario.number))]
  /\ UNCHANGED <<fs, cache, now, writable, last, scan, parse, bulk, md, tree>>

\* ---------------------------------------------------- SpecMetadataManager
\* The content of spec.md is the sequence of its lines (content.split('\n')),
\* a line the sequence of its parts: "---" is a part of its own at the start
\* of a line, a key is followed by the part ":", and " " is a blank.

\* value.trim()
Trim(value) ==
  LET inked == {i \in 1..Len(value) : value[i] # " "}
  IN IF inked = {} THEN <<>>
     ELSE SubSeq(value, CHOOSE i \in inked : \A j \in inked : i <= j,
                 CHOOSE i \in inked : \A j \in inked : i >= j)

\* The line on which content.match(/^---\n([\s\S]*?)\n---/) ends, 0 when it
\* does not match: the first line is "---", and the match ends with the first
\* three characters of the first line from the third on that starts with "---".
frontmatterMatch(content) ==
  LET closing == {k \in 3..Len(content) : content[k] # <<>> /\ content[k][1] = "---"}
  IN IF content[1] = <<"---">> /\ closing # {}
     THEN CHOOSE k \in closing : \A j \in closing : k <= j
     ELSE 0

\* parseYamlFrontmatter: the value of the last line "testDirectory: <value>"
\* (/^(\w+):\s*(.+)$/) of the matched block, trimmed; <<>> for undefined.
parseYamlFrontmatter(content) ==
  LET keyed == {i \in 2..(frontmatterMatch(content) - 1) :
                  /\ Len(content[i]) >= 3
                  /\ content[i][1] = "testDirectory"
                  /\ content[i][2] = ":"}
  IN IF keyed = {} THEN [testDirectory |-> <<>>]
     ELSE LET line == content[CHOOSE i \in keyed : \A j \in keyed : i >= j]
          IN [testDirectory |-> <<Trim(SubSeq(line, 3, Len(line)))>>]

\* updateYamlFrontmatter: without a value the matched block, with the line
\* break after it if one follows at once, is removed; with one the matched
\* block is replaced by the new block, or the new block is put before the
\* content.
updateYamlFrontmatter(content, metadata) ==
  LET k == frontmatterMatch(content)
      rest == Tail(content[k])
      after == SubSeq(content, k + 1, Len(content))
      newFrontmatter == <<<<"---">>, <<"testDirectory", ":", " ">> \o metadata.testDirectory[1]>>
  IN IF metadata.testDirectory = <<>> \/ metadata.testDirectory[1] = <<>>
     THEN (IF k = 0 THEN content
           ELSE IF rest = <<>> /\ after # <<>> THEN after
           ELSE <<rest>> \o after)
     ELSE (IF k = 0 THEN newFrontmatter \o <<<<"---">>>> \o content
           ELSE newFrontmatter \o <<<<"---">> \o rest>> \o after)

\* No spec.md, and no call of the manager yet.
NoMeta == [file |-> <<>>, original |-> <<>>, calls |-> <<>>]

\* A call of the manager, as the last of the calls made.
MetaCall(op, arg, ret, value, after) ==
  [md EXCEPT !.file = after,
             !.calls = Append(@, [op |-> op, arg |-> arg, ret |-> ret, value |-> value,
                                   before |-> md.file, after |-> after])]

\* The author of the document writes spec.md: up to MaxLines lines, each a
\* "---" line, a "----" line, a line "testDirectory: old" or a line of text.
ExternalDocument ==
  /\ md = NoMeta
  /\ \E n \in 1..MaxLines :
       \E content \in [1..n -> {<<"---">>, <<"---", "-">>,
                                <<"testDirectory", ":", " ", "old">>, <<"Intro">>}] :
         md' = [md EXCEPT !.file = <<content>>, !.original = <<content>>]
  /\ UNCHANGED <<fs, cache, now, writable, last, scan, parse, bulk, link, tree>>

writeMetadata_Creates(metadata) ==
  /\ Len(md.calls) < MaxCalls
  /\ md' = MetaCall("writeMetadata", metadata, "returned", <<>>,
                    <<updateYamlFrontmatter(IF md.file = <<>> THEN <<<<>>>> ELSE md.file[1],
                                            metadata)>>)
  /\ UNCHANGED <<fs, cache, now, writable, last, scan, parse, bulk, link, tree>>

\* writeMetadata: it throws when the file does not exist.
writeMetadata(metadata) ==
  /\ Len(md.calls) < MaxCalls
  /\ md' = IF md.file = <<>>
           THEN MetaCall("writeMetadata", metadata, "Spec file not found", <<>>, md.file)
           ELSE MetaCall("writeMetadata", metadata, "returned", <<>>,
                         <<updateYamlFrontmatter(md.file[1], metadata)>>)
  /\ UNCHANGED <<fs, cache, now, writable, last, scan, parse, bulk, link, tree>>

\* setTestDirectory: readMetadata, then writeMetadata with the value set.
setTestDirectory(testDirectory) ==
  /\ Len(md.calls) < MaxCalls
  /\ md' = IF md.file = <<>>
           THEN MetaCall("setTestDirectory", testDirectory, "Spec file not found", <<>>,
                         md.file)
           ELSE MetaCall("setTestDirectory", testDirectory, "returned", <<>>,
                         <<updateYamlFrontmatter(md.file[1],
                                                 [testDirectory |-> <<testDirectory>>])>>)
  /\ UNCHANGED <<fs, cache, now, writable, last, scan, parse, bulk, link, tree>>

\* getTestDirectory: readMetadata gives {} when the file does not exist.
getTestDirectory ==
  /\ Len(md.calls) < MaxCalls
  /\ md' = MetaCall("getTestDirectory", <<>>, "returned",
                    IF md.file = <<>> THEN <<>>
                    ELSE parseYamlFrontmatter(md.file[1]).testDirectory,
                    md.file)
  /\ UNCHANGED <<fs, cache, now, writable, last, scan, parse, bulk, link, tree>>

\* --------------------------------------------------------- SpecTreeProvider
\* The directories of the specs directory, as fs.readdirSync lists them.
TreeDirs == <<"001-a", "002-b">>
\* What a specification directory holds: no spec.md, a spec.md with one story,
\* one scenario and a test directory in its frontmatter, or a spec.md with two
\* stories and no test directory.
NoSpecFile == [exists |-> FALSE, readable |-> FALSE, lines |-> <<>>, testDirectory |-> <<>>]
TreeFiles ==
  {NoSpecFile,
   [exists |-> TRUE, readable |-> TRUE, testDirectory |-> <<"tests">>,
    lines |-> <<H1, M, Ln("implicit", 2, "", "", <<>>)>>],
   [exists |-> TRUE, readable |-> TRUE, testDirectory |-> <<>>,
    lines |-> <<H1, M, I1, H2>>]}
\* What the test directory holds: nothing (it does not exist), or one test
\* file of story 1.
TreeTests == {<<>>, <<CHOOSE f \in Pool : f.name = Names.strict /\ ~f.isDirectory>>}

\* A refresh() call before its first statement.
NewRefresh ==
  [pc |-> "start", todo |-> TreeDirs, specs |-> <<>>, linked |-> <<>>,
   at |-> <<0, 0>>, testDirectory |-> <<>>, tests |-> <<>>]

\* The loop of parseAllSpecs from its next entry to its next await, which
\* comes after parseSpecFile has read an spec.md that exists, or to its return.
RECURSIVE ParseLoop(_, _)
ParseLoop(call, disk) ==
  IF call.todo = <<>>
  THEN [call EXCEPT !.pc = "parsed", !.specs = SortSpecs(@)]
  ELSE LET entry == Head(call.todo)
       IN IF disk.files[entry].exists
          THEN [call EXCEPT !.pc = "parsing", !.todo = Tail(@),
                            !.specs = @ \o ParseDocument(entry, disk.files[entry])]
          ELSE ParseLoop([call EXCEPT !.todo = Tail(@)], disk)

\* scenario.linkedTests of the scenarios of story k of spec s.
LinkedTests(call, s, k, tests) ==
  LET story == call.specs[s].userStories[k]
  IN [place \in {<<s, k, i>> : i \in 1..Len(story.acceptanceScenarios)} |->
        SelectSeq(tests, LAMBDA t : linkedFilter(t, story.number,
                                     story.acceptanceScenarios[place[3]].number))]

\* The loops of refresh over the specs and their stories, from story k of
\* spec s to the next await, which comes after findTestsForStory has read the
\* test directory, or to the end.  getTestDirectory reads spec.md as the
\* iteration of a spec starts.
RECURSIVE LinkLoop(_, _, _, _)
LinkLoop(call, disk, s, k) ==
  IF s > Len(call.specs) THEN [call EXCEPT !.pc = "done"]
  ELSE LET spec == call.specs[s]
           testDirectory == IF k = 1 THEN disk.files[spec.name].testDirectory
                            ELSE call.testDirectory
           unlinked == UNION {{<<s, j, i>> : i \in 1..Len(spec.userStories[j].acceptanceScenarios)} :
                                j \in 1..Len(spec.userStories)}
       IN IF testDirectory = <<>>
          THEN LinkLoop([call EXCEPT !.linked = [place \in unlinked |-> <<>>] @@ @],
                        disk, s + 1, 1)
          ELSE IF k > Len(spec.userStories)
          THEN LinkLoop(call, disk, s + 1, 1)
          ELSE [call EXCEPT !.pc = "linking", !.at = <<s, k>>,
                            !.testDirectory = testDirectory,
                            !.tests = StoryTests(disk.tests # <<>>, disk.tests,
                                                 spec.userStories[k].number)]

\* The provider as its constructor leaves it: specs is [], and the refresh()
\* it called without awaiting it has run to its first await.  Both
\* directories have a spec.md and the test directory has its file.
Constructed ==
  LET disk == [files |-> [d \in {"001-a", "002-b"} |->
                            CHOOSE f \in TreeFiles :
                              f.exists /\ (f.testDirectory # <<>> <=> d = "001-a")],
               tests |-> CHOOSE t \in TreeTests : t # <<>>]
  IN [disk |-> disk, calls |-> <<ParseLoop(NewRefresh, disk)>>, queue |-> <<1>>,
      owner |-> 0, sameTurn |-> FALSE, pending |-> FALSE, changes |-> 0]

\* this.specs: the array of the call that assigned it last, with the
\* linkedTests that call has set so far.
ProviderSpecs(t) ==
  IF t.owner = 0 THEN [specs |-> <<>>, linked |-> <<>>]
  ELSE [specs |-> t.calls[t.owner].specs, linked |-> t.calls[t.owner].linked]

\* A listener calls refresh() and does not await it: the call runs to its
\* first await.  A turn of the event loop starts when no continuation is
\* queued; the listeners of one batch of events run in the same turn.  The
\* events of the changes made so far are delivered as a turn starts.
refresh ==
  /\ Len(tree.calls) < MaxRefreshes
  /\ tree.queue = <<>> \/ tree.sameTurn
  /\ tree' = [tree EXCEPT !.calls = Append(@, ParseLoop(NewRefresh, tree.disk)),
                          !.queue = Append(@, Len(tree.calls) + 1),
                          !.sameTurn = TRUE,
                          !.pending = IF tree.queue = <<>> THEN FALSE ELSE @]
  /\ UNCHANGED <<fs, cache, now, writable, last, scan, parse, bulk, link, md>>

\* The continuations run in the order they were queued.  After
\* `await this.parseSpecFile(...)`: the rest of the loop of parseAllSpecs.
ParseResume ==
  /\ tree.queue # <<>>
  /\ LET i == Head(tree.queue)
     IN /\ tree.calls[i].pc = "parsing"
        /\ tree' = [tree EXCEPT !.calls[i] = ParseLoop(@, tree.disk),
                                !.queue = Append(Tail(@), i), !.sameTurn = FALSE]
  /\ UNCHANGED <<fs, cache, now, writable, last, scan, parse, bulk, link, md>>

\* After `await this.parser.parseAllSpecs(...)`: this.specs is assigned and
\* the loop over it starts.
AssignSpecs ==
  /\ tree.queue # <<>>
  /\ LET i == Head(tree.queue)
         call == LinkLoop(tree.calls[i], tree.disk, 1, 1)
     IN /\ tree.calls[i].pc = "parsed"
        /\ tree' = [tree EXCEPT !.owner = i, !.calls[i] = call,
                                !.queue = IF call.pc = "done" THEN Tail(@)
                                          ELSE Append(Tail(@), i),
                                !.sameTurn = FALSE]
  /\ UNCHANGED <<fs, cache, now, writable, last, scan, parse, bulk, link, md>>

\* After `await this.testLinker.findTestsForStory(...)`: the scenarios of the
\* story get their linkedTests and the loops go on.
LinkResume ==
  /\ tree.queue # <<>>
  /\ LET i == Head(tree.queue)
         old == tree.calls[i]
         call == LinkLoop([old EXCEPT !.linked =
                             LinkedTests(old, old.at[1], old.at[2], old.tests) @@ @],
                          tree.disk, old.at[1], old.at[2] + 1)
     IN /\ old.pc = "linking"
        /\ tree' = [tree EXCEPT !.calls[i] = call,
                                !.queue = IF call.pc = "done" THEN Tail(@)
                                          ELSE Append(Tail(@), i),
                                !.sameTurn = FALSE]
  /\ UNCHANGED <<fs, cache, now, writable, last, scan, parse, bulk, link, md>>

\* Somebody creates, rewrites or deletes one spec.md, or fills or empties the
\* test directory.  The watchers see every such change: an event is pending
\* until a listener has called refresh().
FileChange ==
  /\ tree.changes < MaxChanges
  /\ \E disk \in {[tree.disk EXCEPT !.files[d] = f] : d \in DOMAIN tree.disk.files,
                                                       f \in TreeFiles}
                   \cup {[tree.disk EXCEPT !.tests = t] : t \in TreeTests} :
       /\ disk # tree.disk
       /\ tree' = [tree EXCEPT !.disk = disk, !.pending = TRUE, !.changes = @ + 1]
  /\ UNCHANGED <<fs, cache, now, writable, last, scan, parse, bulk, link, md>>

\* ------------------------------------------------------------ specification
\* What findTestsForStory may resolve with.
Found(testName, passStatus, passDate) ==
  [filePath |-> <<WorkspaceRoot, TestFile>>, testName |-> testName,
   passStatus |-> passStatus, passDate |-> passDate]
ScanResults ==
  { <<>>,
    <<Found("US1-AS1: works", "pass", <<-1>>),
      Found("us1-as2: fails", Undefined, NoDate), Found("smoke", Undefined, NoDate),
      Found(Undefined, Undefined, NoDate)>> }

\* The entries addTest is called with.
TestEntries ==
  { [filePath |-> TestFile, testName |-> "US1-AS1: works", status |-> "unknown",
     lastRun |-> NoDate],
    [filePath |-> TestFile, testName |-> "us1-as2: fails", status |-> "fail",
     lastRun |-> <<-1>>] }

Init ==
  /\ fs = [q \in FilePaths |-> Absent]
  /\ cache = <<>>
  /\ now = 0
  /\ writable = TRUE
  /\ last = NoCall
  /\ scan = IdleScan
  /\ parse = NoParse
  /\ bulk = NoBulk
  /\ link = NoLink
  /\ md = NoMeta
  /\ tree = Constructed

Next ==
  \/ \E p \in SpecPaths, t \in Targets :
       \/ \E level \in LevelSet : setScenarioMaturity(p, t[1], t[2], level)
       \/ \E test \in TestEntries : addTest(p, t[1], t[2], test)
       \/ \E name \in TestNames, st \in {"pass", "fail"} :
            setTestStatus(p, t[1], t[2], name, st)
  \/ \E p \in SpecPaths : scanAndUpdateMaturity(p)
  \/ \E tests \in ScanResults : ScanResume(tests)
  \/ \E p \in SpecPaths : Access(p)
  \/ \E p \in SpecPaths : clearCache(p)
  \/ clearCacheAll
  \/ \E path \in FilePaths : \E content \in Contents(path) : ExternalWrite(path, content)
  \/ ExternalChmod

Spec == Init /\ [][Next]_vars

ParserNext ==
  \/ \E readable \in BOOLEAN : parseSpecFile(readable)
  \/ \E line \in DocLines : ScanLine(line)
  \/ ParseReturn
  \/ \E listing \in Listings : parseAllSpecs(TRUE, listing)
  \/ parseAllSpecs(FALSE, <<>>)
  \/ BulkEntry
  \/ BulkReturn

ParserSpec == Init /\ [][ParserNext]_vars

LinkerNext ==
  \/ parseTestFile(FilePath(<<>>, Names.strict))
  \/ \E k \in {"named", "plain", "opening", "spec2", "spec3", "blank", "close",
               "fence", "stray"} : ParseTestLine(Src[k])
  \/ ParseTestReturn
  \/ \E exists \in BOOLEAN, n \in {1, 2} :
       \/ findTestsForStory(exists, n)
       \/ findTestFileForStory(exists, n)
       \/ \E m \in {2, 3} : findTestsForScenario(exists, n, m)
       \/ \E line \in {Ln("implicit", 2, "", "", <<>>), Ln("implicit", 3, "", "", <<>>),
                       Ln("explicit", 2, "a", "", ScenarioIdOf(n, 2, "a")),
                       Ln("explicit", 3, "", "", ScenarioIdOf(n, 2, ""))} :
            refreshScenario(exists, n, NewScenario([number |-> n], line, 1)[1])

LinkerSpec == Init /\ [][LinkerNext]_vars

MetadataNext ==
  \/ ExternalDocument
  \/ \E v \in {<<"tests">>, <<"tests", " ">>, <<>>} : setTestDirectory(v)
  \/ \E v \in {<<>>, <<<<"tests">>>>} : writeMetadata([testDirectory |-> v])
  \/ getTestDirectory

MetadataSpec == Init /\ [][MetadataNext]_vars

\* The store over maturity.json texts of any shape.
JsonNext ==
  \/ \E p \in SpecPaths :
       \E content \in {Absent} \cup {JsonText(j) : j \in ExternalJson \cup MalformedJson} :
         ExternalWrite(getMaturityFilePath(p), content)
  \/ \E p \in SpecPaths : Access(p)
  \/ \E p \in SpecPaths : clearCache(p)
  \/ \E p \in SpecPaths, t \in Targets, level \in LevelSet :
       setScenarioMaturity(p, t[1], t[2], level)

JsonSpec == Init /\ [][JsonNext]_vars

\* The tree provider, its listeners and the files under it.
RefreshNext ==
  \/ refresh
  \/ ParseResume
  \/ AssignSpecs
  \/ LinkResume
  \/ FileChange

RefreshSpec == Init /\ [][RefreshNext]_vars

\* ====================================================================
\* Properties of the maturity store
\* ====================================================================
\* The order none < partial < complete.
LevelRank(level) ==
  CASE level = "none" -> 0 [] level = "partial" -> 1 [] level = "complete" -> 2
    [] OTHER -> -1
LevelLeq(a, b) == LevelRank(a) >= 0 /\ LevelRank(a) <= LevelRank(b)
\* The least level of a non-empty set of levels.
IsMinLevel(m, S) == m \in S /\ \A x \in S : LevelLeq(m, x)
ScenarioLevels(story) == {story.scenarios[c].level : c \in DOMAIN story.scenarios}

SyncMutators == {"setScenarioMaturity", "addTest", "setTestStatus"}
\* The records the store holds or would read now, one per spec.
Held(p) == getMaturityData(p)
\* The record a store with an empty cache reads for p.
Fresh(disk, p) == parseMaturityFile(disk, getMaturityFilePath(p))
IsCached(p) == getMaturityFilePath(p) \in DOMAIN cache
\* Equality of records apart from lastUpdated.
SameRecord(a, b) == a.userStories = b.userStories

\* C1: for every record and every story in it, getUserStoryMaturity is the
\* least, in the order none < partial < complete, of the story's stored
\* overall and the levels of all its scenarios.
C1_StoryMaturityIsMinimum ==
  \A p \in SpecPaths, n \in StoryNumbers :
    StoryKey(n) \in DOMAIN Held(p).userStories =>
      LET story == Held(p).userStories[StoryKey(n)]
      IN IsMinLevel(getUserStoryMaturity(Held(p), n),
                    {story.overall} \cup ScenarioLevels(story))

\* A story whose stored overall is complete over a scenario that is not, and
\* whose maturity is that scenario's level.
C1_Witness ==
  \E p \in SpecPaths, n \in StoryNumbers :
    /\ StoryKey(n) \in DOMAIN Held(p).userStories
    /\ LET story == Held(p).userStories[StoryKey(n)]
       IN /\ story.overall = "complete"
          /\ "partial" \in ScenarioLevels(story)
          /\ "none" \notin ScenarioLevels(story)
          /\ getUserStoryMaturity(Held(p), n) = "partial"

\* C2: in every reachable state, a story's maturity is not higher than the
\* level of any scenario recorded under it, also while the stored overall is
\* stale.
C2_NeverAboveAScenario ==
  \A p \in SpecPaths, n \in StoryNumbers :
    StoryKey(n) \in DOMAIN Held(p).userStories =>
      \A c \in DOMAIN Held(p).userStories[StoryKey(n)].scenarios :
        LevelLeq(getUserStoryMaturity(Held(p), n), getScenarioMaturity(Held(p), n, c))

\* addTest has just created a scenario (level none) under a story whose
\* stored overall is still complete.
C2_Witness ==
  /\ last.op = "addTest"
  /\ LET story == Held(last.path).userStories[StoryKey(last.story)]
     IN /\ story.overall = "complete"
        /\ story.scenarios[last.scenario].level = "none"
        /\ getUserStoryMaturity(Held(last.path), last.story) = "none"

\* C3: a call of setScenarioMaturity, addTest or setTestStatus that starts
\* with the cache in step with the disk (no entry, or an entry equal to a
\* fresh parse) ends, returned or thrown, with the cached record equal to a
\* fresh parse of the file, lastUpdated apart.
C3_CacheEqualsDiskAfterMutation ==
  [][\A written \in {fs'}, held \in {cache'}, call \in {last'} :
       (/\ call.op \in SyncMutators
        /\ IsCached(call.path) =>
             SameRecord(cache[getMaturityFilePath(call.path)], Fresh(fs, call.path)))
       => SameRecord(held[getMaturityFilePath(call.path)], Fresh(written, call.path))]_vars

\* What a record holds apart from scenario c of story n: the other scenarios
\* of every story and the overall of the other stories.
Others(data, n, c) ==
  [scenarios |->
     UNION {{<<k, id, data.userStories[k].scenarios[id]>> :
               id \in DOMAIN data.userStories[k].scenarios
                        \ (IF k = StoryKey(n) THEN {c} ELSE {})} :
            k \in DOMAIN data.userStories},
   overall |->
     {<<k, data.userStories[k].overall>> : k \in DOMAIN data.userStories \ {StoryKey(n)}}]

AccessorValues(data) ==
  [n \in StoryNumbers |->
     [story |-> getUserStoryMaturity(data, n),
      scenarios |->
        [c \in ScenarioIds |->
           [level |-> getScenarioMaturity(data, n, c),
            tests |-> getTestsForScenario(data, n, c),
            status |-> [t \in TestNames |-> getTestStatus(data, n, c, t)]]]]]

\* C5: once a record is cached, what the accessors return is not changed by
\* others rewriting the files, nor by accessor calls (cached or not);
\* clearCache(specPath) and clearCache() leave a store whose next accessor
\* call returns the values of the files as they are then.  The steps that are
\* no mutator call, no clearCache and no step of a scan are the accessor calls
\* and the steps of others; of these only accessor calls leave the files and
\* their permissions alone.
C5_StaleUntilCleared ==
  [][\A p \in SpecPaths : \A after \in {getMaturityDataIn(cache', fs', p)} :
       /\ (/\ last' = NoCall
           /\ scan' = scan
           /\ IsCached(p) \/ (fs' = fs /\ writable' = writable))
          => \/ after = Held(p)
             \/ AccessorValues(after) = AccessorValues(Held(p))
       /\ (last'.op = "clearCache" /\ last'.path \in {p, <<>>})
          => \/ after = Fresh(fs, p)
             \/ AccessorValues(after) = AccessorValues(Fresh(fs, p))]_vars

\* A cached record read from maturity.json, whose file others have rewritten
\* since: the accessors return what the file no longer says.
C5_Witness ==
  \E p \in SpecPaths :
    /\ IsCached(p)
    /\ last = NoCall
    /\ writable
    /\ Held(p).lastUpdated = <<Earlier>>
    /\ fs[getMaturityFilePath(p)].kind = "json"
    /\ fs[getMaturityFilePath(p)].json.lastUpdated = <<Earlier>>
    /\ AccessorValues(Held(p)) # AccessorValues(Fresh(fs, p))

\* C6: in the state a returned setScenarioMaturity(S, c, L) leaves, scenario c
\* has level L and the stored overall of S is the least level of the scenarios
\* of S, in the cached record and in the record parsed from the file.
C6_SetScenarioRecomputesOverall ==
  (last.op = "setScenarioMaturity" /\ last.ret = "returned") =>
    \A data \in {cache[getMaturityFilePath(last.path)], Fresh(fs, last.path)} :
      /\ StoryKey(last.story) \in DOMAIN data.userStories
      /\ LET story == data.userStories[StoryKey(last.story)]
         IN /\ last.scenario \in DOMAIN story.scenarios
            /\ story.scenarios[last.scenario].level = last.arg
            /\ IsMinLevel(story.overall, ScenarioLevels(story))

\* setScenarioMaturity returned on a story with scenarios of two levels.
C6_Witness ==
  /\ last.op = "setScenarioMaturity"
  /\ last.ret = "returned"
  /\ last.arg = "complete"
  /\ LET story == Fresh(fs, last.path).userStories[StoryKey(last.story)]
     IN /\ Cardinality(ScenarioLevels(story)) = 2
        /\ story.overall = "partial"

Defaults ==
  [n \in StoryNumbers |->
     [story |-> "none",
      scenarios |-> [c \in ScenarioIds |->
                       [level |-> "none", tests |-> <<>>,
                        status |-> [t \in TestNames |-> "unknown"]]]]]

\* C8 as amended: when neither maturity.json nor maturity.md exists, every
\* accessor call that misses the cache (on a new store, or after clearCache)
\* returns the defaults: level none, no tests, status unknown.
C8_AbsentRecordReadsAsNone ==
  \A p \in SpecPaths :
    (/\ fs[getMaturityFilePath(p)] = Absent
     /\ fs[getLegacyMaturityFilePath(p)] = Absent
     /\ ~IsCached(p))
    => AccessorValues(Held(p)) = Defaults

\* Both files are gone, after the store wrote maturity.json and its cache was
\* cleared: the accessors read the absent record.
C8_Witness ==
  \E p \in SpecPaths :
    /\ fs[getMaturityFilePath(p)] = Absent
    /\ fs[getLegacyMaturityFilePath(p)] = Absent
    /\ ~IsCached(p)
    /\ last.op = "clearCache"
    /\ now >= 2

\* C8 as stated: whenever neither file exists, the accessors return the
\* defaults.
C8_AbsentFilesMeanNone ==
  \A p \in SpecPaths :
    (/\ fs[getMaturityFilePath(p)] = Absent
     /\ fs[getLegacyMaturityFilePath(p)] = Absent)
    => AccessorValues(Held(p)) = Defaults

\* The record a JSON text says: for every story member its overall and, for
\* every scenario member, its level and tests (no name occurs twice in the
\* texts considered).
Says(json, data) ==
  /\ DOMAIN data.userStories = {json.userStories[i].key : i \in 1..Len(json.userStories)}
  /\ \A i \in 1..Len(json.userStories) :
       LET m == json.userStories[i]
           story == data.userStories[m.key]
       IN /\ story.overall = m.overall
          /\ DOMAIN story.scenarios = {m.scenarios[j].id : j \in 1..Len(m.scenarios)}
          /\ \A j \in 1..Len(m.scenarios) :
               /\ story.scenarios[m.scenarios[j].id].level = m.scenarios[j].level
               /\ story.scenarios[m.scenarios[j].id].tests = m.scenarios[j].tests

\* C9: a read that misses the cache returns what maturity.json says whenever
\* that file exists and parses, whatever maturity.md holds; it returns what
\* maturity.md holds only when maturity.json is absent or does not parse; and
\* a returned setScenarioMaturity or addTest leaves a maturity.json that
\* parses, so that no content of maturity.md changes a later read.
C9_JsonBeforeLegacy ==
  \A p \in SpecPaths :
    LET mp == getMaturityFilePath(p)
        lp == getLegacyMaturityFilePath(p)
        WithLegacy(content) == Fresh([fs EXCEPT ![lp] = content], p)
    IN /\ fs[mp].kind = "json" =>
            \A content \in Contents(lp) :
              /\ Says(fs[mp].json, WithLegacy(content))
              /\ WithLegacy(content) = Fresh(fs, p)
       /\ fs[mp].kind # "json" =>
            /\ fs[lp] = Absent => Fresh(fs, p) = EmptyData
            /\ fs[lp] # Absent => Fresh(fs, p) = parseLegacyMaturityFile(fs[lp])
       /\ (last.op \in {"setScenarioMaturity", "addTest"} /\ last.path = p
           /\ last.ret = "returned") => fs[mp].kind = "json"

\* A mutation has written maturity.json beside a maturity.md that says
\* something else.
C9_Witness ==
  \E p \in SpecPaths :
    /\ last.op \in {"setScenarioMaturity", "addTest"}
    /\ last.ret = "returned"
    /\ fs[getMaturityFilePath(p)].kind = "json"
    /\ fs[getLegacyMaturityFilePath(p)] # Absent
    /\ ~SameRecord(parseLegacyMaturityFile(fs[getLegacyMaturityFilePath(p)]), Fresh(fs, p))

\* C10: addTest leaves no scenario of the record with two entries of the same
\* testName: it replaces in its position the entry of the same testName under the
\* scenario if there is one, appends the entry otherwise, and, when it
\* returns, leaves that list in the file.
C10_AddTestKeepsNamesUnique ==
  [][\A written \in {fs'}, held \in {cache'}, call \in {last'} :
       call.op = "addTest" =>
         LET after == held[getMaturityFilePath(call.path)]
             old == getTestsForScenario(Held(call.path), call.story, call.scenario)
             new == getTestsForScenario(after, call.story, call.scenario)
             test == call.arg
         IN /\ \A n \in StoryNumbers, c \in ScenarioIds :
                 LET tests == getTestsForScenario(after, n, c)
                 IN \A i, j \in 1..Len(tests) :
                      tests[i].testName = tests[j].testName => i = j
            /\ IF \E i \in 1..Len(old) : old[i].testName = test.testName
               THEN /\ Len(new) = Len(old)
                    /\ \A i \in 1..Len(old) :
                         new[i] = IF old[i].testName = test.testName
                                  THEN test ELSE old[i]
               ELSE new = Append(old, test)
            /\ call.ret = "returned" =>
                 getTestsForScenario(Fresh(written, call.path), call.story,
                                     call.scenario) = new]_vars

\* addTest returned after replacing the first of two entries of a scenario.
C10_Witness ==
  /\ last.op = "addTest"
  /\ last.ret = "returned"
  /\ LET tests == getTestsForScenario(Fresh(fs, last.path), last.story, last.scenario)
     IN /\ Len(tests) = 2
        /\ tests[1] = last.arg
        /\ tests[1].status = "unknown"

\* C11: a returned setTestStatus(S, c, name, st) on a test the store holds
\* under scenario c leaves a file from which a fresh store returns st from
\* getTestStatus(S, c, name), and in which the entry of that name has the
\* date of the instant of the call as its lastRun.
C11_SetTestStatusStamps ==
  [][\A written \in {fs'}, call \in {last'} :
       (/\ call.op = "setTestStatus"
        /\ call.ret = "returned"
        /\ \E i \in 1..Len(getTestsForScenario(Held(call.path), call.story, call.scenario)) :
             getTestsForScenario(Held(call.path), call.story, call.scenario)[i].testName
               = call.arg[1])
       => LET data == Fresh(written, call.path)
              tests == getTestsForScenario(data, call.story, call.scenario)
          IN /\ getTestStatus(data, call.story, call.scenario, call.arg[1]) = call.arg[2]
             /\ \E i \in 1..Len(tests) :
                  /\ tests[i].testName = call.arg[1]
                  /\ tests[i].status = call.arg[2]
                  /\ tests[i].lastRun = <<now \div 2>>]_vars

\* setTestStatus returned after turning a passing test, last run on an
\* earlier day, into a failing one.
C11_Witness ==
  /\ last.op = "setTestStatus"
  /\ last.ret = "returned"
  /\ last.arg = <<"US1-AS1: works", "fail">>
  /\ LET tests == getTestsForScenario(Fresh(fs, last.path), last.story, last.scenario)
     IN /\ Len(tests) = 2
        /\ tests[1].status = "fail"
        /\ tests[1].lastRun # <<-1>>
        /\ tests[1].lastRun # NoDate

\* ====================================================================
\* Properties of the specification parser
\* ====================================================================
\* parseSpecFile has returned a FeatureSpec.
Parsed == parse.pc = "returned" /\ parse.result # Null
\* The scenarios of a list of stories, each by its place: <<story index,
\* scenario index>>.
ScenarioPlaces(stories) ==
  UNION {{<<k, i>> : i \in 1..Len(stories[k].acceptanceScenarios)} : k \in 1..Len(stories)}
\* The lines of the story-heading grammar.
Headings(lines) == {i \in 1..Len(lines) : lines[i].kind = "heading"}
\* The heading of the story line i lies in: the last one before it.
Owner(lines, i) ==
  CHOOSE h \in Headings(lines) : h < i /\ \A g \in Headings(lines) : g < i => g <= h
\* Line i lies in an "Acceptance Scenarios" section of a story: of the
\* headings, markers and rules before it the last is a marker, and a heading
\* comes before that marker.
Capturing(lines, i) ==
  LET S == {j \in 1..(i - 1) : lines[j].kind \in {"heading", "marker", "rule"}}
  IN \E j \in S : /\ \A k \in S : k <= j
                   /\ lines[j].kind = "marker"
                   /\ \E h \in Headings(lines) : h < j
\* The scenarios the stories hold for line i.
ScenariosOfLine(stories, i) ==
  {a \in ScenarioPlaces(stories) : stories[a[1]].acceptanceScenarios[a[2]].line = i}

\* C12: every story of a parsed FeatureSpec ends at or after the line it
\* starts on, a story whose heading is immediately followed by the next
\* heading or by the end of the input included.
C12_EndLineNotBeforeStartLine ==
  Parsed => \A i \in 1..Len(parse.result[1].userStories) :
              parse.result[1].userStories[i].endLine
                >= parse.result[1].userStories[i].startLine

\* C13: every line of the story-heading grammar opens a story that starts on
\* that line and closes the story open before it with the line before the
\* heading as its endLine; the end of the input closes the open story with
\* the last line scanned as its endLine.
C13_HeadingsCloseAndOpen ==
  Parsed =>
    LET lines == parse.lines
        stories == parse.result[1].userStories
    IN /\ Len(stories) = Cardinality(Headings(lines))
       /\ \A k \in 1..Len(stories) :
            LET h == stories[k].startLine
                later == {g \in Headings(lines) : g > h}
            IN /\ h \in Headings(lines)
               /\ stories[k].endLine =
                    IF later = {} THEN Len(lines)
                    ELSE (CHOOSE g \in later : \A g2 \in later : g <= g2) - 1

\* C14: in a FeatureSpec returned by parseSpecFile no two scenarios, over all
\* its stories and all their scenario subsections, have the same id.
C14_ScenarioIdsUnique ==
  Parsed =>
    LET stories == parse.result[1].userStories
    IN \A a \in ScenarioPlaces(stories), b \in ScenarioPlaces(stories) :
         stories[a[1]].acceptanceScenarios[a[2]].id
           = stories[b[1]].acceptanceScenarios[b[2]].id => a = b

\* C15: the id of every scenario of a parsed FeatureSpec is "US" + the number
\* of the story that owns it + "-AS" + the scenario's number + an optional
\* letter suffix.
C15_IdDerivedFromStoryAndOrdinal ==
  Parsed =>
    LET stories == parse.result[1].userStories
    IN \A a \in ScenarioPlaces(stories) :
         \E suffix \in {"", "a"} :
           stories[a[1]].acceptanceScenarios[a[2]].id
             = ScenarioIdOf(stories[a[1]].number,
                            stories[a[1]].acceptanceScenarios[a[2]].number, suffix)

\* C16: a scenario line with an explicit identifier, read inside an
\* "Acceptance Scenarios" section, yields one scenario, whose id is exactly
\* the identifier written on the line and whose number is the numeric part of
\* the line's list marker.
C16_ExplicitIdWins ==
  Parsed =>
    LET lines == parse.lines
        stories == parse.result[1].userStories
    IN \A i \in 1..Len(lines) :
         lines[i].kind = "explicit" /\ Capturing(lines, i) =>
           /\ Cardinality(ScenariosOfLine(stories, i)) = 1
           /\ \A a \in ScenariosOfLine(stories, i) :
                /\ stories[a[1]].acceptanceScenarios[a[2]].id = lines[i].id
                /\ stories[a[1]].acceptanceScenarios[a[2]].number = lines[i].number

\* The lines "1." with US1-AS1 and "1a." with US1-AS1a of one story have
\* yielded two scenarios of different ids, both of number 1.
C16_Witness ==
  /\ Parsed
  /\ parse.lines = <<H1, M, E1, E1a>>
  /\ LET scenarios == parse.result[1].userStories[1].acceptanceScenarios
     IN /\ Len(scenarios) = 2
        /\ scenarios[1].id = ScenarioIdOf(1, 1, "") /\ scenarios[1].number = 1
        /\ scenarios[2].id = ScenarioIdOf(1, 1, "a") /\ scenarios[2].number = 1

\* C17: a scenario line is attached, once, to the story whose heading is the
\* last before it when it lies in an "Acceptance Scenarios" section of that
\* story, opened by a marker that is plain or has a section qualifier, and to
\* no story otherwise; a "---" line ends the section without closing the
\* story, and a later marker opens a section of the same story.
C17_SectionsOfOneStory ==
  Parsed =>
    LET lines == parse.lines
        stories == parse.result[1].userStories
    IN /\ Len(stories) = Cardinality(Headings(lines))
       /\ \A i \in 1..Len(lines) :
            IF lines[i].kind \in {"explicit", "implicit"} /\ Capturing(lines, i)
            THEN /\ Cardinality(ScenariosOfLine(stories, i)) = 1
                 /\ \A a \in ScenariosOfLine(stories, i) :
                      stories[a[1]].startLine = Owner(lines, i)
            ELSE ScenariosOfLine(stories, i) = {}

\* After a marker and a "---" line, a marker with a qualifier has opened a
\* section again, and the one story of the document has taken its scenario.
C17_Witness ==
  /\ Parsed
  /\ parse.lines = <<H1, M, R, MQ, E1>>
  /\ Len(parse.result[1].userStories) = 1
  /\ ScenariosOfLine(parse.result[1].userStories, 5) = {<<1, 1>>}

\* C18: parseSpecFile on a document that can be read returns a FeatureSpec,
\* whatever the lines are; when no line is of the story-heading grammar the
\* FeatureSpec has no story.
C18_ReadableContentNeverFails ==
  parse.pc = "returned" /\ parse.readable =>
    /\ parse.result # Null
    /\ Headings(parse.lines) = {} => parse.result[1].userStories = <<>>

\* A document of a marker, a scenario line and a text line, with no story
\* heading, has been parsed into a FeatureSpec of zero stories.
C18_Witness ==
  /\ Parsed
  /\ parse.lines = <<M, I1, T>>
  /\ parse.result[1].userStories = <<>>

\* C19: a parse of a document that exists and cannot be read does not return
\* to its caller: it fails with the error; and a bulk parse that returns has a
\* FeatureSpec for every feature directory that holds a spec.md.
C19_UnreadableIsSurfaced ==
  /\ parse.pc = "returned" => parse.readable
  /\ bulk.pc = "returned" =>
       \A i \in 1..Len(bulk.entries) :
         bulk.entries[i].isDirectory /\ bulk.entries[i].file.exists =>
           \E k \in 1..Len(bulk.specs) : bulk.specs[k].name = bulk.entries[i].name

\* C20: every story of a parsed FeatureSpec has priority P1, P2 or P3.
C20_PriorityOneOfThree ==
  Parsed => \A k \in 1..Len(parse.result[1].userStories) :
              parse.result[1].userStories[k].priority \in {"P1", "P2", "P3"}

\* ====================================================================
\* Properties of the test linker
\* ====================================================================
\* parseTestFile has returned.
ParsedFile == link.op = "parseTestFile" /\ link.pc = "returned"
\* The up to three non-blank lines nearest before line i.
NearestNonBlank(lines, i) ==
  LET nonBlank == {j \in 1..(i - 1) : lines[j].kind # "blank"}
  IN {j \in nonBlank : Cardinality({k \in nonBlank : k > j}) < 3}
\* Line i starts outside every multi-line template string: the backticks
\* that open or close one come in pairs before it.
OutsideTemplate(lines, i) ==
  Cardinality({j \in 1..(i - 1) : lines[j].tick = "template"}) % 2 = 0

\* C26: a test declaration has an annotation exactly when an "@spec:" comment
\* is among the up to three non-blank lines before it; blank lines between
\* them neither count nor end the search.
C26_AnnotationWithinThreeNonBlank ==
  ParsedFile =>
    \A k \in 1..Len(link.result) :
      link.result[k].line # <<>> =>
        (link.result[k].specAnnotation # <<>>
           <=> \E j \in NearestNonBlank(link.lines, link.result[k].line[1]) :
                 link.lines[j].kind = "spec")

\* C27: parseTestFile returns one record, with the name and the line, for
\* each test declaration that starts a line outside every multi-line template
\* string, and none for the others; when there is no such declaration it
\* returns the one record that has only the file's path and name.
C27_OneRecordPerDeclaration ==
  ParsedFile =>
    LET declared == {i \in 1..Len(link.lines) :
                       link.lines[i].kind = "test" /\ OutsideTemplate(link.lines, i)}
    IN IF declared = {} THEN link.result = <<BareTest(link.filePath)>>
       ELSE /\ Len(link.result) = Cardinality(declared)
            /\ \A i \in declared :
                 \E k \in 1..Len(link.result) :
                   /\ link.result[k].line = <<i>>
                   /\ link.result[k].testName = <<link.lines[i].name>>

\* The files under the tests directory, at any depth, by their paths.
UnderTests(listing) ==
  {FilePath(<<>>, listing[i].name) : i \in {j \in 1..Len(listing) : ~listing[j].isDirectory}}
  \cup UNION {{FilePath(<<listing[i].name>>, listing[i].entries[k].name) :
                 k \in 1..Len(listing[i].entries)} :
              i \in {j \in 1..Len(listing) : listing[j].isDirectory}}
\* The name is that of a test file named for story n: it ends in .spec.ts or
\* .test.ts and holds us<n>, user-story-<n> or story<n> with no digit after it.
NamedForStory(name, n) ==
  /\ Len(name) >= 2
  /\ <<name[Len(name) - 1], name[Len(name)]>> \in {<<".spec", ".ts">>, <<".test", ".ts">>}
  /\ \E i \in 1..Len(name) :
       \E pat \in {<<"u", "s">>, <<"u", "s", "e", "r", "-", "s", "t", "o", "r", "y", "-">>,
                   <<"s", "t", "o", "r", "y">>} :
         After(name, i, pat \o String(n))
           \notin {"", "0", "1", "2", "3", "4", "5", "6", "7", "8", "9"}

\* C24: findTestsForStory for story n on a tests directory that exists
\* returns records of exactly the test files under it, at any depth, that are
\* named for story n, so none of a file named for story 10 or 12 when n is 1;
\* on a directory that does not exist it returns the empty list.
C24_StoryFilesExactly ==
  link.op = "findTestsForStory" /\ link.pc = "returned" =>
    IF link.exists
    THEN {link.result[k].filePath : k \in 1..Len(link.result)}
           = {f \in UnderTests(link.listing) : NamedForStory(f.name, link.story)}
    ELSE link.result = <<>>

\* findTestsForStory for story 1 has returned the test of a file in a
\* subdirectory and none of the file named for story 10 next to it.
C24_Witness ==
  /\ link.op = "findTestsForStory" /\ link.pc = "returned"
  /\ link.story = 1
  /\ \E i \in 1..Len(link.listing) : link.listing[i].name = Names.ten
  /\ \E k \in 1..Len(link.result) :
       link.result[k].filePath = FilePath(<<Names.sub>>, Names.strict)
  /\ \A k \in 1..Len(link.result) : link.result[k].fileName # Names.ten

\* C25: findTestFileForStory returns the same file whatever the order in
\* which the directory listing enumerates the entries.
C25_SameFileInAnyOrder ==
  link.op = "findTestFileForStory" /\ link.pc = "returned" =>
    \A order \in Permutations(1..Len(link.listing)) :
      StoryFile(link.exists, [i \in 1..Len(link.listing) |-> link.listing[order[i]]],
                link.story) = link.result

\* A story's tests have been filtered for one scenario, by
\* findTestsForScenario or by refresh.
Filtered == link.op \in {"findTestsForScenario", "refresh"} /\ link.pc = "returned"
Selected(test) == \E k \in 1..Len(link.result) : link.result[k] = test

\* C21: of a story's tests, one that has an annotation is selected for a
\* scenario exactly when the annotation names that scenario; its name plays
\* no part.
C21_AnnotationDecides ==
  Filtered =>
    \A k \in 1..Len(link.tests) :
      link.tests[k].specAnnotation # <<>> =>
        (Selected(link.tests[k])
           <=> link.tests[k].specAnnotation[1] = Token(link.story, DigitsOf(link.scenario)))

\* C22: every test selected for scenario m of story s has the text
\* US<s>-AS<m>, with that very scenario number, in its annotation or in its name.
C22_OnlyTheExactToken ==
  Filtered =>
    \A k \in 1..Len(link.result) :
      \/ link.result[k].specAnnotation = <<Token(link.story, DigitsOf(link.scenario))>>
      \/ /\ link.result[k].testName # <<>>
         /\ \E w \in 1..Len(link.result[k].testName[1]) :
              link.result[k].testName[1][w] = Token(link.story, DigitsOf(link.scenario))

\* C23: when the tests of story 1 are filtered for scenario 2, the test of a
\* file that has the comment "@spec: <feature>/US1-AS2" within the three
\* non-blank lines before the declaration is selected.
C23_AnnotatedFileIsSelected ==
  Filtered /\ link.story = 1 /\ link.scenario = 2 =>
    \A f \in 1..Len(findTestFiles(<<>>, link.listing)) :
      LET file == findTestFiles(<<>>, link.listing)[f]
      IN \A i \in 1..Len(file.lines) :
           (/\ NamedForStory(file.filePath.name, 1)
            /\ file.lines[i].kind = "test"
            /\ \E j \in NearestNonBlank(file.lines, i) :
                 file.lines[j].annotation = <<Token(1, <<2>>)>>)
           => \E k \in 1..Len(link.result) :
                /\ link.result[k].filePath = file.filePath
                /\ link.result[k].line = <<i>>

\* ------------------------------------------- Properties of the metadata manager

\* A line "<key>: <value>".
KeyValue(line) == Len(line) >= 3 /\ line[2] = ":"

\* The line that closes the header block `---\n<key>: <value>\n...\n---` at
\* the start of the content, 0 when the content does not start with one.
HeaderEnd(content) ==
  LET closing == {k \in 3..Len(content) :
                    /\ content[k] = <<"---">>
                    /\ \A i \in 2..(k - 1) : KeyValue(content[i])}
  IN IF content[1] = <<"---">> /\ closing # {} THEN CHOOSE k \in closing : TRUE ELSE 0

\* The content holds nothing of a header block: it does not start with a "---"
\* line, or no line "<key>: <value>" follows.
HeaderLess(content) ==
  content[1] # <<"---">> \/ \A i \in 2..Len(content) : ~KeyValue(content[i])

\* The content after the header block, all of it when there is no header block.
Remainder(content) ==
  IF HeaderEnd(content) = 0 THEN content
  ELSE IF HeaderEnd(content) = Len(content) THEN <<<<>>>>
  ELSE SubSeq(content, HeaderEnd(content) + 1, Len(content))

\* The metadata of a call that writes, and whether it holds a value.
Written(call) ==
  IF call.op = "setTestDirectory" THEN <<call.arg>> ELSE call.arg.testDirectory

WritesValue(call) == Written(call) # <<>> /\ Written(call)[1] # <<>>

\* C28: on an existing document, with a header block or without one,
\* setTestDirectory(v) followed by getTestDirectory returns v, whatever v is.
C28_SetThenGetReturnsTheValue ==
  (/\ Len(md.calls) = 2
   /\ md.calls[1].op = "setTestDirectory"
   /\ md.calls[1].ret = "returned"
   /\ md.calls[2].op = "getTestDirectory")
  => md.calls[2].value = <<md.calls[1].arg>>

\* C29: a write changes nothing outside the header block: the content after
\* the header block (all of it, in a document without one) is the same after
\* the write as before it, and a document without a header block to which a
\* value was written and then an empty value set is again the original one.
C29_WriteKeepsTheRemainder ==
  /\ \A i \in 1..Len(md.calls) :
       (/\ md.calls[i].op \in {"setTestDirectory", "writeMetadata"}
        /\ md.calls[i].ret = "returned"
        /\ (HeaderEnd(md.calls[i].before[1]) # 0 \/ HeaderLess(md.calls[i].before[1])))
       => Remainder(md.calls[i].after[1]) = Remainder(md.calls[i].before[1])
  /\ (/\ Len(md.calls) = 2
      /\ md.original # <<>>
      /\ HeaderLess(md.original[1])
      /\ md.calls[1].op \in {"setTestDirectory", "writeMetadata"}
      /\ WritesValue(md.calls[1])
      /\ md.calls[2].op \in {"setTestDirectory", "writeMetadata"}
      /\ ~WritesValue(md.calls[2]))
     => md.file = md.original

C31_SetTwiceIsSetOnce ==
  [][\A written \in {fs'}, call \in {last'} :
       (/\ last.op = "setScenarioMaturity"
        /\ call = last)
       => SameRecord(Fresh(written, call.path), Fresh(fs, call.path))]_vars

\* The second of two calls of setScenarioMaturity has written the file again:
\* it carries the instant of the second call and holds one scenario at the
\* level set.
C31_Witness ==
  /\ last.op = "setScenarioMaturity"
  /\ last.ret = "returned"
  /\ now = 2
  /\ fs[getMaturityFilePath(last.path)].kind = "json"
  /\ LET json == fs[getMaturityFilePath(last.path)].json
     IN /\ json.lastUpdated = <<toISOString(1)>>
        /\ Len(json.userStories) = 1
        /\ Len(json.userStories[1].scenarios) = 1
        /\ json.userStories[1].scenarios[1].level = last.arg
        /\ json.userStories[1].overall = last.arg

DirectoryTests(key) ==
  IF key = StoryKey(1)
  THEN <<Found("US1-AS1: works", "pass", <<-1>>),
         Found("us1-as2: fails", Undefined, NoDate), Found("smoke", Undefined, NoDate),
         Found(Undefined, Undefined, NoDate)>>
  ELSE <<>>

\* C33: when the tests directory holds test files, a scanAndUpdateMaturity
\* that resolved leaves a maturity.json in which every test of the directory
\* whose name carries an identifier US<n>-AS<m> is recorded under that
\* scenario of its story, also when there was no maturity.json, or no entry
\* for the story, before the scan.
C33_ScanRecordsEveryNamedTest ==
  (/\ last.op = "scanAndUpdateMaturity"
   /\ last.ret = "resolved"
   /\ \A i \in 1..Len(last.arg) : last.arg[i].tests = DirectoryTests(last.arg[i].key))
  => \A n \in StoryNumbers :
       \A i \in 1..Len(DirectoryTests(StoryKey(n))) :
         LET test == DirectoryTests(StoryKey(n))[i]
         IN (test.testName # Undefined /\ ScenarioMatch(test.testName) # <<>>)
            => \E j \in 1..Len(getTestsForScenario(Fresh(fs, last.path), n,
                                                    ScenarioMatch(test.testName)[1])) :
                 getTestsForScenario(Fresh(fs, last.path), n,
                                     ScenarioMatch(test.testName)[1])[j].testName
                   = test.testName

\* ====================================================================
\* Further properties of the test linker and the parser
\* ====================================================================
\* The word that names a scenario id in a test name or annotation.
IdToken(id) == Token(id[2], DigitsOf(id[4]) \o (IF id[5] = "a" THEN <<10>> ELSE <<>>))

\* The test refers to the scenario id: by its annotation if it has one, else
\* by a word of its name.
RefersTo(test, id) ==
  IF test.specAnnotation # <<>> THEN test.specAnnotation[1] = IdToken(id)
  ELSE /\ test.testName # <<>>
       /\ \E k \in 1..Len(test.testName[1]) : test.testName[1][k] = IdToken(id)

\* C34: after refresh, the linkedTests of a scenario whose id has a letter
\* suffix, or whose explicit id differs from the id its list numeral would
\* give, are the tests of its story that refer to the scenario's own id, and
\* not those that refer to the id formed from the numeral.
C34_LinkedByOwnId ==
  (/\ link.op = "refresh"
   /\ link.id # ScenarioIdOf(link.story, link.scenario, ""))
  => link.result = SelectSeq(link.tests, LAMBDA t : RefersTo(t, link.id))

\* The description a story should have: the first line of its preamble (the
\* lines after its heading h, before the first marker, "---" line or next
\* heading) that is not empty and does not start with a bold label, if any.
PreambleDescription(lines, h) ==
  LET preamble == {i \in (h + 1)..Len(lines) :
                     \A j \in (h + 1)..i : lines[j].kind \notin {"heading", "marker", "rule"}}
      candidates == {i \in preamble :
                       lines[i].kind \notin {"blank", "bold", "why", "independent"}}
  IN IF candidates = {} THEN <<>>
     ELSE <<lines[CHOOSE i \in candidates : \A j \in candidates : i <= j]>>

\* C35: the description of every story is the first line of its preamble that
\* is not empty and does not start with a bold label; a line after a "---"
\* line or inside the scenario section never becomes the description.
C35_DescriptionFromPreamble ==
  Parsed =>
    \A k \in 1..Len(parse.result[1].userStories) :
      parse.result[1].userStories[k].description
        = PreambleDescription(parse.lines, parse.result[1].userStories[k].startLine)

\* C36: a mutation keeps the parts of maturity.json it does not target: the
\* testConfig block of the file before a returned setScenarioMaturity, addTest
\* or setTestStatus is in the file afterwards, unchanged.
C36_TestConfigKept ==
  [][\A written \in {fs'}, call \in {last'} :
       (/\ call.op \in SyncMutators
        /\ call.ret = "returned"
        /\ fs[getMaturityFilePath(call.path)].kind = "json"
        /\ fs[getMaturityFilePath(call.path)].json.testConfig # <<>>)
       => /\ written[getMaturityFilePath(call.path)].kind = "json"
          /\ written[getMaturityFilePath(call.path)].json.testConfig
               = fs[getMaturityFilePath(call.path)].json.testConfig]_vars

\* C37: whatever maturity.json holds, as long as it is JSON (a level that is
\* no level, a scenario without level, a story without overall included),
\* getScenarioMaturity and getUserStoryMaturity return none, partial or
\* complete.
C37_AlwaysALevel ==
  \A p \in SpecPaths, n \in StoryNumbers :
    /\ getUserStoryMaturity(Held(p), n) \in LevelSet
    /\ \A c \in ScenarioIds : getScenarioMaturity(Held(p), n, c) \in LevelSet

\* The stored overall of story n, none when the record has no such story.
OverallOf(data, n) ==
  IF StoryKey(n) \in DOMAIN data.userStories
  THEN data.userStories[StoryKey(n)].overall
  ELSE "none"

\* C38: in the record the store holds, setScenarioMaturity changes only the
\* level of its scenario and the overall of its story and keeps the
\* scenario's test entries; addTest changes only the test list of its
\* scenario, and there only the entry of the given name or the end of the
\* list; setTestStatus changes only the status and lastRun of the entry of the
\* given name and, with no such entry, changes neither record nor file; every
\* other story, scenario and entry stays as it was.
C38_OnlyTheTargetChanges ==
  [][\A held \in {cache'}, written \in {fs'}, call \in {last'} :
       call.op \in SyncMutators =>
         LET before == Held(call.path)
             after == held[getMaturityFilePath(call.path)]
             old == getTestsForScenario(before, call.story, call.scenario)
             new == getTestsForScenario(after, call.story, call.scenario)
             levelKept ==
               /\ getScenarioMaturity(after, call.story, call.scenario)
                    = getScenarioMaturity(before, call.story, call.scenario)
               /\ OverallOf(after, call.story) = OverallOf(before, call.story)
         IN /\ Others(after, call.story, call.scenario)
                 = Others(before, call.story, call.scenario)
            /\ call.op = "setScenarioMaturity" => new = old
            /\ call.op = "addTest" =>
                 /\ levelKept
                 /\ Len(new) >= Len(old)
                 /\ \A i \in 1..Len(old) :
                      old[i].testName # call.arg.testName => new[i] = old[i]
            /\ call.op = "setTestStatus" =>
                 /\ levelKept
                 /\ Len(new) = Len(old)
                 /\ \A i \in 1..Len(old) :
                      /\ new[i].testName = old[i].testName
                      /\ new[i].filePath = old[i].filePath
                      /\ old[i].testName # call.arg[1] => new[i] = old[i]
                 /\ findIndex(old, call.arg[1]) < 0 =>
                      /\ after = before
                      /\ written = fs]_vars

\* setTestStatus returned on the first of two entries of a scenario, in a
\* record that holds another story as well.
C38_Witness ==
  /\ last.op = "setTestStatus"
  /\ last.ret = "returned"
  /\ last.arg = <<"US1-AS1: works", "fail">>
  /\ IsCached(last.path)
  /\ LET data == cache[getMaturityFilePath(last.path)]
         tests == getTestsForScenario(data, 1, "US1-AS1")
     IN /\ StoryKey(2) \in DOMAIN data.userStories
        /\ Len(tests) = 2
        /\ tests[1].status = "fail"
        /\ tests[2].testName = "US1-AS1: again"
        /\ tests[2].status = "unknown"

\* C39: getUserStoryMaturity returns complete for a story only if
\* getScenarioMaturity returns complete for every acceptance scenario the
\* spec document has under that story (Targets), whether or not the record
\* has an entry for it.
C39_CompleteOnlyIfEveryScenarioIs ==
  \A p \in SpecPaths, t \in Targets :
    getUserStoryMaturity(Held(p), t[1]) = "complete" =>
      getScenarioMaturity(Held(p), t[1], t[2]) = "complete"

\* ====================================================================
\* Properties of the tree provider
\* ====================================================================
\* What one parse of the files of disk gives, every scenario with the
\* linkedTests the files of disk give it.
RECURSIVE ParsedDirs(_, _)
ParsedDirs(dirs, disk) ==
  IF dirs = <<>> THEN <<>>
  ELSE (IF disk.files[Head(dirs)].exists
        THEN ParseDocument(Head(dirs), disk.files[Head(dirs)])
        ELSE <<>>) \o ParsedDirs(Tail(dirs), disk)
FilesNow(disk) ==
  LET specs == SortSpecs(ParsedDirs(TreeDirs, disk))
      places == UNION {UNION {{<<s, k, i>> :
                                 i \in 1..Len(specs[s].userStories[k].acceptanceScenarios)} :
                              k \in 1..Len(specs[s].userStories)} :
                       s \in 1..Len(specs)}
  IN [specs |-> specs,
      linked |->
        [place \in places |->
           LET story == specs[place[1]].userStories[place[2]]
           IN IF disk.files[specs[place[1]].name].testDirectory = <<>> THEN <<>>
              ELSE SelectSeq(StoryTests(disk.tests # <<>>, disk.tests, story.number),
                             LAMBDA t : linkedFilter(t, story.number,
                                          story.acceptanceScenarios[place[3]].number))]]
\* Every refresh() has completed and the watchers have no change to report.
Settled(t) == t.queue = <<>> /\ ~t.pending

\* C40: once every refresh() call has completed and no file has changed
\* since, the specs of the provider are a parse of the files as they are, with
\* the linkedTests of every scenario; and the result of a refresh() that
\* started earlier never replaces the result of one that started later.
C40_LatestRefreshWins ==
  [][\A next \in {tree'} :
       /\ Settled(next) => ProviderSpecs(next) = FilesNow(next.disk)
       /\ next.owner >= tree.owner]_vars

====
